---- MODULE Spec2Model ----
(***************************************************************************)
(* A model of the 6emu 8086 emulator: the Cpu object (registers, flags,    *)
(* memory with its cursor, program size, pending segment override, halt    *)
(* flag), the decoder Cpu::fetch, the handlers behind Cpu::execute and the *)
(* two run loops (Cpu::fire and the loop in main).                         *)
(***************************************************************************)
EXTENDS Integers, Sequences, FiniteSets, TLC

VARIABLES
    cpu,      \* the Cpu object: regs, mem, prog_size, seg_override, halt
    pc,       \* position of the run loop: fetch, execute, rep, rep_loop, done, abort
    inst,     \* the instruction the run loop holds (the `i` of `while let Some(i)`)
    rep,      \* the frame of Cpu::rep / Cpu::repne: its kind, its `instr`, and counters
    runloop,  \* which run loop drives the Cpu: "main" (main.rs) or "fire" (Cpu::fire)
    build,    \* the build profile: "debug" (overflow checks) or "release" (wrapping)
    hist      \* history of the run, kept for the properties (not program state)

vars == <<cpu, pc, inst, rep, runloop, build, hist>>

(***************************************************************************)
(* Bounds of the model.                                                    *)
(***************************************************************************)
MaxCount == 3
MaxSteps == 14

(***************************************************************************)
(* Integer helpers: u8/u16 wrapping and bits.                              *)
(***************************************************************************)
Pow2(n) == 2 ^ n

W8(x) == x % 256

W16(x) == x % 65536

Bit(x, k) == (x \div Pow2(k)) % 2

Lo(x) == x % 256

Hi(x) == (x \div 256) % 256

\* (v as i8) for a byte v, (v as i16) for a word v
AsI8(v) == IF v >= 128 THEN v - 256 ELSE v

AsI16(v) == IF v >= 32768 THEN v - 65536 ELSE v

(***************************************************************************)
(* mem.rs: Mem is a Cursor over a Vec<u8>.  The vector is created EMPTY    *)
(* (Vec::with_capacity); writing past its end zero-fills, reading at or    *)
(* past its end fails read_exact and the expect() aborts the process.      *)
(* vec is kept sparse: an address below len that is absent holds 0.        *)
(***************************************************************************)
MemNew == [vec |-> [a \in {} |-> 0], len |-> 0, pos |-> 0]

MemByte(m, a) == IF a \in DOMAIN m.vec THEN m.vec[a] ELSE 0

\* read_exact of n bytes at address a succeeds iff they all lie inside the vector
MemReadable(m, a, n) == a + n <= m.len

MemU16(m, a) == MemByte(m, a) + 256 * MemByte(m, a + 1)

MemPut(vec, a, v) ==
    IF v = 0 THEN [x \in (DOMAIN vec) \ {a} |-> vec[x]]
             ELSE [x \in (DOMAIN vec) \cup {a} |-> IF x = a THEN v ELSE vec[x]]

\* Mem::write_u8 at the cursor: store, grow the vector if needed, advance the cursor
MemWriteU8(m, val) ==
    [vec |-> MemPut(m.vec, m.pos, val),
     len |-> IF m.pos + 1 > m.len THEN m.pos + 1 ELSE m.len,
     pos |-> m.pos + 1]

\* variant: the high byte first
MemWriteU16_BigEndian(m, val) == MemWriteU8(MemWriteU8(m, Hi(val)), Lo(val))

MemWriteU16(m, val) == MemWriteU8(MemWriteU8(m, Lo(val)), Hi(val))

MemSeekTo(m, p) == [m EXCEPT !.pos = p]

(***************************************************************************)
(* regs.rs: the FLAGS word and its bit accessors.                          *)
(***************************************************************************)
FlagBit(f) ==
    CASE f = "cf" -> 0 [] f = "pf" -> 2 [] f = "af" -> 4 [] f = "zf" -> 6
      [] f = "sf" -> 7 [] f = "tf" -> 8 [] f = "if" -> 9 [] f = "df" -> 10
      [] f = "of" -> 11

FlagsDefault == 2

flag_get(bi, f) == Bit(bi, FlagBit(f)) = 1

\* variant: set_X toggles the bit
flag_set_Toggle(bi, f) ==
    IF Bit(bi, FlagBit(f)) = 1 THEN bi - Pow2(FlagBit(f)) ELSE bi + Pow2(FlagBit(f))

flag_set(bi, f) == IF Bit(bi, FlagBit(f)) = 1 THEN bi ELSE bi + Pow2(FlagBit(f))

\* clear_af's mask is written with 15 digits (0b111111111101111): it clears bit 15 too
flag_clear(bi, f) ==
    LET b1 == IF Bit(bi, FlagBit(f)) = 1 THEN bi - Pow2(FlagBit(f)) ELSE bi
    IN  IF f = "af" /\ Bit(b1, 15) = 1 THEN b1 - Pow2(15) ELSE b1

\* variant: the word is stored as it comes
set_from_u16_Verbatim(v) == v

\* Flags::set_from_u16, whole-word load: the nine architectural bits are taken from
\* the word, bit 1 is 1 and the other reserved bits are 0
set_from_u16(v) ==
    2 + Bit(v, 0) + 4 * Bit(v, 2) + 16 * Bit(v, 4) + 64 * Bit(v, 6) + 128 * Bit(v, 7)
      + 256 * Bit(v, 8) + 512 * Bit(v, 9) + 1024 * Bit(v, 10) + 2048 * Bit(v, 11)

clear_arith(bi) ==
    flag_clear(flag_clear(flag_clear(flag_clear(flag_clear(flag_clear(
        bi, "af"), "cf"), "sf"), "zf"), "of"), "pf")

(***************************************************************************)
(* regs.rs / cpu.rs: the register file.  The 16-bit registers are indexed  *)
(* by the 8086 reg encoding; the byte registers alias their halves.        *)
(***************************************************************************)
Reg16Name == <<"ax", "cx", "dx", "bx", "sp", "bp", "si", "di">>

RegistersDefault ==
    [ax |-> 0, bx |-> 0, cx |-> 0, dx |-> 0, si |-> 0, di |-> 0, sp |-> 0, bp |-> 0,
     es |-> 0, ds |-> 0, cs |-> 0, ss |-> 0, ip |-> 0, flags |-> FlagsDefault]

get_reg(regs, id, word) ==
    IF word THEN regs[Reg16Name[id + 1]]
    ELSE IF id < 4 THEN Lo(regs[Reg16Name[id + 1]])
                   ELSE Hi(regs[Reg16Name[id - 3]])

\* variant: a write to a high byte replaces the whole register
set_reg_HighReplaces(regs, id, word, val) ==
    IF word THEN [regs EXCEPT ![Reg16Name[id + 1]] = W16(val)]
    ELSE IF id < 4
         THEN [regs EXCEPT ![Reg16Name[id + 1]] = (@ - Lo(@)) + W8(val)]
         ELSE [regs EXCEPT ![Reg16Name[id - 3]] = 256 * W8(val)]

set_reg(regs, id, word, val) ==
    IF word THEN [regs EXCEPT ![Reg16Name[id + 1]] = W16(val)]
    ELSE IF id < 4
         THEN [regs EXCEPT ![Reg16Name[id + 1]] = (@ - Lo(@)) + W8(val)]
         ELSE [regs EXCEPT ![Reg16Name[id - 3]] = Lo(@) + 256 * W8(val)]

SegRegName == <<"es", "cs", "ss", "ds">>

get_seg_reg(regs, pos) == regs[SegRegName[(pos % 4) + 1]]

set_seg_reg(regs, pos, val) == [regs EXCEPT ![SegRegName[(pos % 4) + 1]] = val]

\* Registers::get_ds/get_es/get_ss/get_cs: the linear base, segment << 4
SegBase(regs, seg) ==
    16 * (CASE seg = "Ds" -> regs.ds [] seg = "Es" -> regs.es
            [] seg = "Ss" -> regs.ss [] seg = "Cs" -> regs.cs)

\* Registers::set_ss (set_cs, set_ds, set_es): from a 16-byte aligned linear base
\* variant: the linear base is stored unshifted
set_seg_linear_Unshifted(regs, name, val) == [regs EXCEPT ![name] = val]

set_seg_linear(regs, name, val) == [regs EXCEPT ![name] = val \div 16]

\* variant: the assertion is compiled out
SegAligned_Always(val) == TRUE

\* the assert!(val % 16 == 0) that opens set_ss, set_cs, set_ds and set_es
SegAligned(val) == val % 16 = 0

(***************************************************************************)
(* cpu.rs: address formation.                                              *)
(***************************************************************************)
ea(regs, seg, offt) == SegBase(regs, seg) + offt

\* variant: the pending override is not consulted
get_segment_offset_NoOverride(c, seg, offt) == ea(c.regs, seg, offt)

get_segment_offset(c, seg, offt) ==
    IF c.seg_override # "None" THEN ea(c.regs, c.seg_override, offt)
                               ELSE ea(c.regs, seg, offt)

code_addr(c, offset) == (SegBase(c.regs, "Cs") + offset) % 1048576

stack_addr(c, offset) == (SegBase(c.regs, "Ss") + offset) % 1048576

extra_addr(c, offset) == (SegBase(c.regs, "Es") + offset) % 1048576

data_addr(c, offset) == (SegBase(c.regs, "Ds") + offset) % 1048576

(***************************************************************************)
(* cpu.rs: operands and instructions.  An operand is a tagged record; v is *)
(* the register id, the immediate or the physical address, and offt the    *)
(* pre-segmentation offset of a memory operand.                            *)
(***************************************************************************)
Operand(kind, v, offt) == [kind |-> kind, v |-> v, offt |-> offt]

Mem(word, addr, offt) == Operand(IF word THEN "Mem16" ELSE "Mem8", addr, offt)

Reg(word, id) == Operand(IF word THEN "Reg16" ELSE "Reg8", id, 0)

Imm8(v) == Operand("Imm8", v, 0)

Imm16(v) == Operand("Imm16", v, 0)

NoOperand == Reg(FALSE, 0)

Instruction(opcode, dest, src) == [opcode |-> opcode, dest |-> dest, src |-> src]

NoInst == Instruction("None", NoOperand, NoOperand)

(***************************************************************************)
(* cpu.rs: construction and program load.                                  *)
(***************************************************************************)
LoadLimit == 1024

CpuInit ==
    [regs |-> [RegistersDefault EXCEPT !.cs = 65535],
     mem |-> MemNew, prog_size |-> 0, seg_override |-> "None", halt |-> FALSE,
     panicked |-> FALSE]

test_mode(c) ==
    [c EXCEPT !.regs = [set_seg_linear(c.regs, "ss", 4096)
                           EXCEPT !.cs = 0, !.ds = 0, !.es = 0, !.ip = 0, !.sp = 4095]]

RECURSIVE LoadBytes(_, _, _)
LoadBytes(m, bytes, i) ==
    IF m.pos < LoadLimit /\ i <= Len(bytes)
    THEN LoadBytes(MemWriteU8(m, bytes[i]), bytes, i + 1)
    ELSE m

load_code_vec(c, bytes) ==
    LET m == LoadBytes(MemSeekTo(c.mem, code_addr(c, 0)), bytes, 1)
    IN  [c EXCEPT !.mem = m, !.prog_size = m.pos]

(***************************************************************************)
(* cpu.rs: the decoder.  A decoding step yields the operand or instruction *)
(* built, the number of bytes the cursor consumed for it, and whether the  *)
(* decoder aborted (unreachable!/unimplemented!/panic!, or an overflowing  *)
(* u16 addition in a debug build).                                         *)
(***************************************************************************)
calc_op_displacement(c, bld, word, b2, p) ==
    LET modd == b2 \div 64
        rm == b2 % 8
        r == c.regs
        nd == CASE modd = 1 -> 1 [] modd = 2 -> 2 [] OTHER -> 0
        disp == CASE modd = 1 -> MemByte(c.mem, p)
                  [] modd = 2 -> MemU16(c.mem, p)
                  [] OTHER -> 0
        direct == rm = 6 /\ modd # 1
        sum == CASE rm = 0 -> r.bx + r.si + disp
                 [] rm = 1 -> r.bx + r.di + disp
                 [] rm = 2 -> r.bp + r.si + disp
                 [] rm = 3 -> r.bp + r.di + disp
                 [] rm = 4 -> r.si + disp
                 [] rm = 5 -> r.di + disp
                 [] rm = 6 -> IF modd = 1 THEN r.bp + disp ELSE MemU16(c.mem, p + nd)
                 [] rm = 7 -> r.bx + disp
        seg == IF rm \in {2, 3} \/ (rm = 6 /\ modd = 1) THEN "Ss" ELSE "Ds"
        offt == W16(sum)
    IN  [op |-> Mem(word, get_segment_offset(c, seg, offt), offt),
         n |-> nd + (IF direct THEN 2 ELSE 0),
         panic |-> modd = 3 \/ (bld = "debug" /\ sum > 65535)]

addr_mod(c, bld, word, b2, p) ==
    IF b2 \div 64 = 3
    THEN [op |-> Reg(word, b2 % 8), n |-> 0, panic |-> FALSE]
    ELSE calc_op_displacement(c, bld, word, b2, p)

Fetched(opcode, dest, src, n, panic) ==
    [inst |-> Instruction(opcode, dest, src), n |-> n, panic |-> panic]

FetchPanic(n) == Fetched("None", NoOperand, NoOperand, n, TRUE)

Plain(opcode) == Fetched(opcode, NoOperand, NoOperand, 1, FALSE)

AluName == <<"Add", "Or", "Adc", "Sbb", "And", "Sub", "Xor", "Cmp">>

\* an instruction with an r/m operand `am` and one other operand; extra counts the
\* bytes read after the r/m operand
WithRm(opcode, am, other, rm_is_dest, extra) ==
    Fetched(opcode, IF rm_is_dest THEN am.op ELSE other,
            IF rm_is_dest THEN other ELSE am.op, 2 + am.n + extra, am.panic)

\* the mod/reg/rm form of groups 0,2,..,14, 33 and 34: one operand is the reg field,
\* the other the r/m operand; bit 1 of the first byte says which is the destination
ModRegRm(c, bld, opcode, b1, p0) ==
    WithRm(opcode, addr_mod(c, bld, b1 % 2 = 1, MemByte(c.mem, p0 + 1), p0 + 2),
           Reg(b1 % 2 = 1, (MemByte(c.mem, p0 + 1) \div 8) % 8),
           (b1 \div 2) % 2 = 0, 0)

\* the immediate of ni bytes at q (sign-extended to a word if sx)
ImmAt(m, q, ni, sx) ==
    CASE ni = 0 -> Imm8(0)
      [] ni = 1 /\ ~sx -> Imm8(MemByte(m, q))
      [] ni = 1 /\ sx -> Imm16(W16(AsI8(MemByte(m, q)) + 65536))
      [] ni = 2 -> Imm16(MemU16(m, q))

\* an r/m destination `am` followed by an immediate: the destination is decoded first
RmImm(c, opcode, am, p0, ni, sx) ==
    WithRm(opcode, am, ImmAt(c.mem, p0 + 2 + am.n, ni, sx), TRUE, ni)

\* groups 1,3,..,15: accumulator with immediate, segment push/pop, prefixes, adjusts
DecodeAccSeg(c, g, t, p0) ==
    LET k == (g - 1) \div 2 + 1
    IN  CASE t = 0 -> Fetched(AluName[k], Reg(FALSE, 0), Imm8(MemByte(c.mem, p0 + 1)), 2, FALSE)
          [] t = 1 -> Fetched(IF g = 9 THEN "Add" ELSE AluName[k], Reg(TRUE, 0),
                              Imm16(MemU16(c.mem, p0 + 1)), 3, FALSE)
          [] t = 2 -> Plain(<<"PushEs", "PushCs", "PushSs", "PushDs", "OverrideEs",
                              "OverrideCs", "OverrideSs", "OverrideDs">>[k])
          [] t = 3 -> IF g = 3 THEN FetchPanic(1)
                      ELSE Plain(<<"PopEs", "None", "PopSs", "PopDs",
                                   "Daa", "Das", "Aaa", "Aas">>[k])

RegOpName ==
    <<"IncAx", "IncCx", "IncDx", "IncBx", "IncSp", "IncBp", "IncSi", "IncDi",
      "DecAx", "DecCx", "DecDx", "DecBx", "DecSp", "DecBp", "DecSi", "DecDi",
      "PushAx", "PushCx", "PushDx", "PushBx", "PushSp", "PushBp", "PushSi", "PushDi",
      "PopAx", "PopCx", "PopDx", "PopBx", "PopSp", "PopBp", "PopSi", "PopDi">>

JccName ==
    <<"Jo", "Jno", "Jb", "Jnb", "Jz", "Jnz", "Jbe", "Jnbe",
      "Js", "Jns", "Jp", "Jnp", "Jl", "Jnl", "Jle", "Jnle">>

\* groups 16..39
DecodeMid(c, bld, b1, g, t, p0) ==
    LET m == c.mem
        b2 == MemByte(m, p0 + 1)
        reg == (b2 \div 8) % 8
    IN  CASE g \in 16..23 -> Plain(RegOpName[(g - 16) * 4 + t + 1])
          [] g \in 24..27 -> FetchPanic(1)
          [] g \in 28..31 ->
               Fetched(JccName[(g - 28) * 4 + t + 1], Imm8(MemByte(m, p0 + 1)), NoOperand, 2, FALSE)
          [] g = 32 ->
               IF t >= 2 /\ reg \notin {0, 2, 3, 5, 7} THEN FetchPanic(2)
               ELSE RmImm(c, AluName[reg + 1], addr_mod(c, bld, t % 2 = 1, b2, p0 + 2), p0,
                          IF t = 1 THEN 2 ELSE 1, t = 3)
          [] g = 33 -> ModRegRm(c, bld, "Test", b1, p0)
          [] g = 34 -> ModRegRm(c, bld, "Mov", b1, p0)
          [] g = 35 ->
              (CASE t = 0 -> IF reg >= 4 THEN FetchPanic(2)
                             ELSE WithRm("Mov", addr_mod(c, bld, TRUE, b2, p0 + 2),
                                         Operand("Seg", reg % 4, 0), TRUE, 0)
                 [] t = 1 -> WithRm("Lea", addr_mod(c, bld, TRUE, b2, p0 + 2), Reg(TRUE, reg),
                                    FALSE, 0)
                 [] t = 2 -> IF reg >= 4 THEN FetchPanic(2)
                             ELSE WithRm("Mov", addr_mod(c, bld, TRUE, b2, p0 + 2),
                                         Operand("Seg", reg % 4, 0), FALSE, 0)
                 [] t = 3 -> IF reg # 0 THEN FetchPanic(2)
                             ELSE WithRm("Pop", addr_mod(c, bld, TRUE, b2, p0 + 2), NoOperand,
                                         TRUE, 0))
          [] g \in 36..37 ->
               Fetched("Xchg", Reg(TRUE, 0), Reg(TRUE, (g - 36) * 4 + t), 1, FALSE)
          [] g = 38 ->
               IF t = 2 THEN Fetched("CallFar", Imm16(MemU16(m, p0 + 1)),
                                     Imm16(MemU16(m, p0 + 3)), 5, FALSE)
               ELSE Plain(<<"Cbw", "Cwd", "CallFar", "Wait">>[t + 1])
          [] g = 39 -> Plain(<<"Pushf", "Popf", "Sahf", "Lahf">>[t + 1])

\* groups 40..63
DecodeHigh(c, bld, b1, g, t, p0) ==
    LET m == c.mem
        b2 == MemByte(m, p0 + 1)
        reg == (b2 \div 8) % 8
        word == t % 2 = 1
    IN  CASE g = 40 ->
               LET a == ea(c.regs, "Ds", MemU16(m, p0 + 1))
               IN  IF t < 2 THEN Fetched("Mov", Reg(word, 0), Mem(word, a, 0), 3, FALSE)
                            ELSE Fetched("Mov", Mem(word, a, 0), Reg(word, 0), 3, FALSE)
          [] g = 41 -> Plain(<<"Movsb", "Movsw", "Cmpsb", "Cmpsw">>[t + 1])
          [] g = 42 ->
              (CASE t = 0 -> Fetched("Test", Reg(FALSE, 0), Imm8(MemByte(m, p0 + 1)), 2, FALSE)
                 [] t = 1 -> Fetched("Test", Reg(TRUE, 0), Imm16(MemU16(m, p0 + 1)), 3, FALSE)
                 [] OTHER -> Plain(IF t = 2 THEN "Stosb" ELSE "Stosw"))
          [] g = 43 -> Plain(<<"Lodsb", "Lodsw", "Scasb", "Scasw">>[t + 1])
          [] g \in 44..45 ->
               Fetched("Mov", Reg(FALSE, (g - 44) * 4 + t), Imm8(MemByte(m, p0 + 1)), 2, FALSE)
          [] g \in 46..47 ->
               Fetched("Mov", Reg(TRUE, (g - 46) * 4 + t), Imm16(MemU16(m, p0 + 1)), 3, FALSE)
          [] g \in {48, 50} ->
              (CASE t = 2 -> Fetched(IF g = 48 THEN "Ret" ELSE "Retf",
                                     Imm16(MemU16(m, p0 + 1)), NoOperand, 3, FALSE)
                 [] t = 3 -> Plain(IF g = 48 THEN "Ret" ELSE "Retf")
                 [] OTHER -> FetchPanic(1))
          [] g = 49 ->
              (CASE t < 2 -> WithRm(IF t = 0 THEN "Les" ELSE "Lds",
                                    calc_op_displacement(c, bld, TRUE, b2, p0 + 2),
                                    Reg(TRUE, reg), FALSE, 0)
                 [] OTHER -> IF reg # 0 THEN FetchPanic(2)
                             ELSE RmImm(c, "Mov", calc_op_displacement(c, bld, word, b2, p0 + 2),
                                        p0, t - 1, FALSE))
          [] g = 51 ->
              (CASE t = 0 -> Fetched("Int", Imm8(3), NoOperand, 1, FALSE)
                 [] t = 1 -> Fetched("Int", Imm8(MemByte(m, p0 + 1)), NoOperand, 2, FALSE)
                 [] OTHER -> Plain(IF t = 2 THEN "Into" ELSE "Iret"))
          [] g = 52 ->
               IF reg = 6 THEN FetchPanic(2)
               ELSE WithRm(<<"Rol", "Ror", "Rcl", "Rcr", "Shl", "Shr", "None", "Sar">>[reg + 1],
                           addr_mod(c, bld, word, b2, p0 + 2),
                           IF t < 2 THEN Imm8(1) ELSE Reg(FALSE, 1), TRUE, 0)
          [] g = 53 ->
              (CASE t < 2 -> Fetched(IF t = 0 THEN "Aam" ELSE "Aad", NoOperand, NoOperand,
                                     2, b2 # 10)
                 [] t = 2 -> FetchPanic(1)
                 [] t = 3 -> Plain("Xlat"))
          [] g \in 54..55 -> FetchPanic(1)
          [] g = 56 -> Fetched(<<"Loopne", "Loope", "Loop", "Jcxz">>[t + 1],
                               Imm8(MemByte(m, p0 + 1)), NoOperand, 2, FALSE)
          [] g = 57 -> Fetched(IF t < 2 THEN "In" ELSE "Out", Reg(word, 0),
                               Imm8(MemByte(m, p0 + 1)), 2, FALSE)
          [] g = 58 ->
              (CASE t = 0 -> Fetched("CallNear", NoOperand, Imm16(MemU16(m, p0 + 1)), 3, FALSE)
                 [] t = 1 -> Fetched("JmpNear", NoOperand, Imm16(MemU16(m, p0 + 1)), 3, FALSE)
                 [] t = 2 -> Fetched("JmpFar", Imm16(MemU16(m, p0 + 1)),
                                     Imm16(MemU16(m, p0 + 3)), 5, FALSE)
                 [] t = 3 -> Fetched("JmpNear", NoOperand, Imm8(MemByte(m, p0 + 1)), 2, FALSE))
          [] g = 59 -> Plain(IF t < 2 THEN "In" ELSE "Out")
          [] g = 60 -> IF t = 1 THEN FetchPanic(1)
                       ELSE Plain(<<"Lock", "None", "Repne", "Rep">>[t + 1])
          [] g = 61 ->
              (CASE t = 0 -> Plain("Hlt")
                 [] t = 1 -> Plain("Cmc")
                 [] OTHER ->
                      IF reg = 1 THEN FetchPanic(2)
                      ELSE RmImm(c, <<"Test", "None", "Not", "Neg", "Mul", "Imul",
                                      "Div", "Idiv">>[reg + 1],
                                 addr_mod(c, bld, word, b2, p0 + 2), p0,
                                 IF reg = 0 THEN t - 1 ELSE 0, FALSE))
          [] g = 62 -> Plain(<<"Clc", "Stc", "Cli", "Sti">>[t + 1])
          [] g = 63 ->
              (CASE t = 0 -> Plain("Cld")
                 [] t = 1 -> Plain("Std")
                 [] OTHER ->
                      IF (t = 2 /\ reg >= 2) \/ reg = 7 THEN FetchPanic(2)
                      ELSE WithRm(<<"Inc", "Inc", "CallNear", "CallFar", "JmpNear", "JmpFar",
                                    "Push">>[reg + 1],
                                  addr_mod(c, bld, word, b2, p0 + 2), Imm8(0), reg \in {0, 1, 3}, 0))

\* Cpu::fetch from the seek to the match: the decoded instruction at CS:IP
DecodeGroup(c, bld, b1, g, t, p0) ==
    CASE g < 16 /\ g % 2 = 0 -> ModRegRm(c, bld, AluName[g \div 2 + 1], b1, p0)
      [] g < 16 /\ g % 2 = 1 -> DecodeAccSeg(c, g, t, p0)
      [] g \in 16..39 -> DecodeMid(c, bld, b1, g, t, p0)
      [] g \in 40..63 -> DecodeHigh(c, bld, b1, g, t, p0)

\* a read past the end of the vector aborts the decoder
CheckReads(m, p0, d) == [d EXCEPT !.panic = @ \/ ~MemReadable(m, p0, d.n)]

Decode(c, bld) ==
    CheckReads(c.mem, code_addr(c, c.regs.ip),
               DecodeGroup(c, bld, MemByte(c.mem, code_addr(c, c.regs.ip)),
                           MemByte(c.mem, code_addr(c, c.regs.ip)) \div 4,
                           MemByte(c.mem, code_addr(c, c.regs.ip)) % 4,
                           code_addr(c, c.regs.ip)))

(***************************************************************************)
(* cpu.rs: memory access of the handlers.  Each saves and restores the     *)
(* cursor.  A handler that aborts the process marks the Cpu as panicked.   *)
(***************************************************************************)
Panic(c) == [c EXCEPT !.panicked = TRUE]

write_mem_u8(c, a, val) ==
    [c EXCEPT !.mem = MemSeekTo(MemWriteU8(MemSeekTo(@, a), val), @.pos)]

write_mem_u16(c, a, val) ==
    [c EXCEPT !.mem = MemSeekTo(MemWriteU16(MemSeekTo(@, a), val), @.pos)]

write_mem(c, a, val, word) ==
    IF word THEN write_mem_u16(c, a, val) ELSE write_mem_u8(c, a, val)

\* read_mem_u8 / read_mem_u16: the value read, and whether read_exact succeeds
read_mem(c, a, word) == IF word THEN MemU16(c.mem, a) ELSE MemByte(c.mem, a)

CanRead(c, a, word) == MemReadable(c.mem, a, IF word THEN 2 ELSE 1)

(***************************************************************************)
(* cpu.rs: the stack.                                                      *)
(***************************************************************************)
push(c, val) ==
    LET c1 == [c EXCEPT !.regs.sp = W16(@ + 65536 - 2)]
    IN  write_mem_u16(c1, stack_addr(c1, c1.regs.sp), val)

\* Cpu::pop returns the word at SS:SP and then advances SP; PopValue is the word
PopValue(c) == MemU16(c.mem, stack_addr(c, c.regs.sp))

\* variant: SP is left where it was
pop_NoAdvance(c) ==
    IF ~CanRead(c, stack_addr(c, c.regs.sp), TRUE) THEN Panic(c) ELSE c

pop(c) ==
    IF ~CanRead(c, stack_addr(c, c.regs.sp), TRUE) THEN Panic(c)
    ELSE [c EXCEPT !.regs.sp = W16(@ + 2)]

popf(c) ==
    IF ~CanRead(c, stack_addr(c, c.regs.sp), TRUE) THEN Panic(c)
    ELSE [c EXCEPT !.regs.flags = set_from_u16(PopValue(c)), !.regs.sp = W16(@ + 2)]

sahf(c) ==
    [c EXCEPT !.regs.flags = set_from_u16(256 * Hi(c.regs.flags) + Hi(c.regs.ax))]

\* ip = pop(); cs = pop(); flags.set_from_u16(pop())
iret(c) ==
    IF ~CanRead(c, stack_addr(c, c.regs.sp), TRUE) THEN Panic(c)
    ELSE IF ~CanRead(c, stack_addr(c, W16(c.regs.sp + 2)), TRUE) THEN Panic(c)
    ELSE IF ~CanRead(c, stack_addr(c, W16(c.regs.sp + 4)), TRUE) THEN Panic(c)
    ELSE [c EXCEPT !.regs.ip = MemU16(c.mem, stack_addr(c, c.regs.sp)),
                   !.regs.cs = MemU16(c.mem, stack_addr(c, W16(c.regs.sp + 2))),
                   !.regs.flags = set_from_u16(MemU16(c.mem, stack_addr(c, W16(c.regs.sp + 4)))),
                   !.regs.sp = W16(@ + 6)]

\* the three pushes are made whatever OF is; the overflow test guards only the
\* clearing of IF and the load of IP and CS from the vector of interrupt 4.  c1, c2
\* and c3 are the Cpu after the first, second and third push.
into(c) ==
    CHOOSE r \in
        {IF ~flag_get(c.regs.flags, "of") THEN c3
         ELSE IF ~CanRead(c3, 16, TRUE) \/ ~CanRead(c3, 18, TRUE) THEN Panic(c3)
         ELSE [c3 EXCEPT !.regs.flags = flag_clear(@, "if"),
                         !.regs.ip = read_mem(c3, 16, TRUE),
                         !.regs.cs = read_mem(c3, 18, TRUE)] :
            c3 \in {push(c2, c.regs.ip) :
                      c2 \in {push(c1, c.regs.cs) : c1 \in {push(c, c.regs.flags)}}}} : TRUE

\* PopAx .. PopDi, PopEs, PopSs, PopDs: regs.<name> = self.pop()
pop_into(c, name) ==
    LET v == PopValue(c)
        c1 == pop(c)
    IN  IF c1.panicked THEN c1 ELSE [c1 EXCEPT !.regs[name] = v]

pop2(c, i) ==
    LET v == PopValue(c)
        c1 == pop(c)
    IN  CASE c1.panicked -> c1
          [] i.dest.kind = "Mem16" -> write_mem_u16(c1, i.dest.v, v)
          [] i.dest.kind = "Reg16" -> [c1 EXCEPT !.regs = set_reg(@, i.dest.v, TRUE, v)]
          [] OTHER -> Panic(c1)

push_mem(c, i) ==
    IF i.src.kind = "Mem16" /\ CanRead(c, i.src.v, TRUE)
    THEN push(c, read_mem(c, i.src.v, TRUE))
    ELSE Panic(c)

(***************************************************************************)
(* cpu.rs: control transfer.                                               *)
(***************************************************************************)
\* i8::abs of -128 (i16::abs of -32768) overflows: a debug build aborts, a release
\* build keeps the value, which `as u16` turns into 2^16 - 2^(bits-1)
adjust_ip(c, bld, val, bits) ==
    LET half == Pow2(bits - 1)
        v == IF val >= half THEN val - 2 * half ELSE val
    IN  CASE v >= 0 -> [c EXCEPT !.regs.ip = W16(@ + v)]
          [] v = -half /\ bld = "debug" -> Panic(c)
          [] v = -half /\ bld # "debug" -> [c EXCEPT !.regs.ip = W16(@ + half)]
          [] OTHER -> [c EXCEPT !.regs.ip = W16(@ + 65536 + v)]

adjust_ip_short(c, bld, val) == adjust_ip(c, bld, val, 8)

adjust_ip_long(c, bld, val) == adjust_ip(c, bld, val, 16)

\* the condition of each conditional jump, as written in Cpu::execute
JccTaken(bi, opcode) ==
    LET cf == flag_get(bi, "cf")
        zf == flag_get(bi, "zf")
        sf == flag_get(bi, "sf")
        of == flag_get(bi, "of")
        pf == flag_get(bi, "pf")
    IN  CASE opcode = "Jo" -> of       [] opcode = "Jno" -> ~of
          [] opcode = "Jb" -> cf       [] opcode = "Jnb" -> ~cf
          [] opcode = "Jz" -> zf       [] opcode = "Jnz" -> ~zf
          [] opcode = "Jbe" -> cf \/ zf [] opcode = "Jnbe" -> ~cf /\ ~zf
          [] opcode = "Js" -> sf       [] opcode = "Jns" -> ~sf
          [] opcode = "Jp" -> pf       [] opcode = "Jnp" -> ~pf
          [] opcode = "Jl" -> sf # of  [] opcode = "Jnl" -> sf = of
          [] opcode = "Jle" -> (sf # of) \/ zf
          [] opcode = "Jnle" -> (sf = of) \/ ~zf

\* variant: Jnbe tests the carry flag alone
jcc_JnbeOnCarryOnly(c, bld, i) ==
    IF i.dest.kind = "Imm8"
          /\ (IF i.opcode = "Jnbe" THEN ~flag_get(c.regs.flags, "cf")
              ELSE JccTaken(c.regs.flags, i.opcode))
    THEN adjust_ip_short(c, bld, i.dest.v) ELSE c

jcc(c, bld, i) ==
    IF i.dest.kind = "Imm8" /\ JccTaken(c.regs.flags, i.opcode)
    THEN adjust_ip_short(c, bld, i.dest.v) ELSE c

\* variant: CX is tested before it is decremented
loopp_TestThenDecrement(c, bld, i) ==
    IF c.regs.cx = 0 THEN [c EXCEPT !.regs.cx = W16(@ + 65535)]
    ELSE adjust_ip_short([c EXCEPT !.regs.cx = W16(@ + 65535)], bld, i.dest.v)

\* Cpu::loopp, loope, loopne: CX is decremented first
loopp(c, bld, i) ==
    LET c1 == [c EXCEPT !.regs.cx = W16(@ + 65535)]
        zf == flag_get(c.regs.flags, "zf")
        go == c1.regs.cx # 0 /\ CASE i.opcode = "Loope" -> zf
                                  [] i.opcode = "Loopne" -> ~zf
                                  [] OTHER -> TRUE
    IN  IF ~go THEN c1
        ELSE IF i.dest.kind = "Imm8" THEN adjust_ip_short(c1, bld, i.dest.v) ELSE Panic(c1)

jcxz(c, bld, i) ==
    IF c.regs.cx # 0 THEN c
    ELSE IF i.dest.kind = "Imm8" THEN adjust_ip_short(c, bld, i.dest.v) ELSE Panic(c)

jmp_near(c, bld, i) ==
    CASE i.src.kind = "Imm16" -> adjust_ip_long(c, bld, i.src.v)
      [] i.src.kind = "Imm8" -> adjust_ip_short(c, bld, i.src.v)
      [] i.src.kind = "Reg16" -> [c EXCEPT !.regs.ip = get_reg(c.regs, i.src.v, TRUE)]
      [] OTHER -> Panic(c)

\* variant: the branch is taken first and the IP it produced is pushed
call_near_BranchThenPush(c, bld, i) ==
    CASE i.src.kind = "Imm16" ->
           push(adjust_ip_long(c, bld, i.src.v), adjust_ip_long(c, bld, i.src.v).regs.ip)
      [] OTHER -> Panic(c)

call_near(c, bld, i) ==
    LET c1 == push(c, c.regs.ip)
    IN  CASE i.src.kind = "Imm16" -> adjust_ip_long(c1, bld, i.src.v)
          [] i.src.kind = "Mem16" ->
               IF CanRead(c1, i.src.v, TRUE)
               THEN [c1 EXCEPT !.regs.ip = read_mem(c1, i.src.v, TRUE)]
               ELSE Panic(c1)
          [] i.src.kind = "Reg16" -> [c1 EXCEPT !.regs.ip = get_reg(c1.regs, i.src.v, TRUE)]
          [] OTHER -> Panic(c)

ret(c, i) ==
    LET c1 == pop_into(c, "ip")
    IN  IF ~c1.panicked /\ i.dest.kind = "Imm16"
        THEN [c1 EXCEPT !.regs.sp = W16(@ + i.dest.v)]
        ELSE c1

hlt(c) == [c EXCEPT !.halt = TRUE]

(***************************************************************************)
(* cpu.rs: data movement.                                                  *)
(***************************************************************************)
IsMem(op) == op.kind \in {"Mem8", "Mem16"}

mov(c, i) ==
    LET d == i.dest
        sr == i.src
        r == c.regs
    IN  CASE d.kind = "Mem16" ->
              (CASE sr.kind = "Reg16" -> write_mem_u16(c, d.v, get_reg(r, sr.v, TRUE))
                 [] sr.kind = "Seg" -> write_mem_u16(c, d.v, get_seg_reg(r, sr.v))
                 [] sr.kind = "Imm16" -> write_mem_u16(c, d.v, sr.v)
                 [] OTHER -> Panic(c))
          [] d.kind = "Mem8" ->
              (CASE sr.kind = "Reg8" -> write_mem_u8(c, d.v, get_reg(r, sr.v, FALSE))
                 [] sr.kind = "Imm8" -> write_mem_u8(c, d.v, sr.v)
                 [] OTHER -> Panic(c))
          [] d.kind = "Reg8" ->
              (CASE sr.kind = "Mem8" ->
                      IF CanRead(c, sr.v, FALSE)
                      THEN [c EXCEPT !.regs = set_reg(r, d.v, FALSE, read_mem(c, sr.v, FALSE))]
                      ELSE Panic(c)
                 [] sr.kind = "Reg8" ->
                      [c EXCEPT !.regs = set_reg(r, d.v, FALSE, get_reg(r, sr.v, FALSE))]
                 [] sr.kind = "Imm8" -> [c EXCEPT !.regs = set_reg(r, d.v, FALSE, sr.v)]
                 [] OTHER -> Panic(c))
          [] d.kind = "Reg16" ->
              (CASE sr.kind = "Mem16" ->
                      IF CanRead(c, sr.v, TRUE)
                      THEN [c EXCEPT !.regs = set_reg(r, d.v, TRUE, read_mem(c, sr.v, TRUE))]
                      ELSE Panic(c)
                 [] sr.kind = "Reg16" ->
                      [c EXCEPT !.regs = set_reg(r, d.v, TRUE, get_reg(r, sr.v, TRUE))]
                 [] sr.kind = "Seg" ->
                      [c EXCEPT !.regs = set_reg(r, d.v, TRUE, get_seg_reg(r, sr.v))]
                 [] sr.kind = "Imm16" -> [c EXCEPT !.regs = set_reg(r, d.v, TRUE, sr.v)]
                 [] OTHER -> Panic(c))
          [] d.kind = "Seg" ->
              (CASE sr.kind = "Reg16" ->
                      [c EXCEPT !.regs = set_seg_reg(r, d.v, get_reg(r, sr.v, TRUE))]
                 [] sr.kind = "Mem16" ->
                      IF CanRead(c, sr.v, TRUE)
                      THEN [c EXCEPT !.regs = set_seg_reg(r, d.v, read_mem(c, sr.v, TRUE))]
                      ELSE Panic(c)
                 [] OTHER -> Panic(c))
          [] OTHER -> Panic(c)

lea(c, i) ==
    IF i.dest.kind = "Reg16" /\ i.src.kind = "Mem16"
    THEN [c EXCEPT !.regs = set_reg(@, i.dest.v, TRUE, i.src.offt)]
    ELSE Panic(c)

(***************************************************************************)
(* cpu.rs: string operations.  n is the element size in bytes.             *)
(***************************************************************************)
RECURSIVE PopCount(_)
PopCount(v) == IF v = 0 THEN 0 ELSE (v % 2) + PopCount(v \div 2)

even_parity(val) == PopCount(val) % 2 = 0

\* variant: the whole operands are compared instead of their low nibbles
aux_sub_WholeOperands(a, b) == a < b

aux_sub(a, b) == (a % 16) < (b % 16)

SetIf(bi, cond, f) == IF cond THEN flag_set(bi, f) ELSE bi

\* the flag block shared by cmpsb, cmpsw, scasb and scasw for result = a - b;
\* sfmin is the least result that passes the handler's sign test
CompareFlags(bi, a, b, n, sfmin) ==
    LET top == Pow2(8 * n)
        result == (a + top - b) % top
        sa == IF a >= top \div 2 THEN a - top ELSE a
        sb == IF b >= top \div 2 THEN b - top ELSE b
        ovf == (sa - sb >= top \div 2) \/ (sa - sb < -(top \div 2))
    IN  SetIf(SetIf(SetIf(SetIf(SetIf(SetIf(clear_arith(bi),
            aux_sub(a, b), "af"),
            even_parity(result % 256), "pf"),
            result = 0, "zf"),
            ovf, "of"),
            a < b, "cf"),
            result >= sfmin, "sf")

\* reg +/- k by the direction flag, wrapping
Advance(c, v, k) == IF flag_get(c.regs.flags, "df") THEN W16(v + 65536 - k) ELSE W16(v + k)

\* movsb (n = 1), movsw (n = 2): SI is computed from the new DI
movs(c, n) ==
    LET dest == extra_addr(c, c.regs.di)
        src == data_addr(c, c.regs.si)
        di == Advance(c, c.regs.di, n)
    IN  IF ~CanRead(c, src, n = 2) THEN Panic(c)
        ELSE [write_mem(c, dest, read_mem(c, src, n = 2), n = 2)
                 EXCEPT !.regs.di = di, !.regs.si = Advance(c, di, n)]

\* cmpsb (n = 1), cmpsw (n = 2): both pointers move by 1, SI from the new DI
cmps(c, n) ==
    LET destt == extra_addr(c, c.regs.di)
        srcc == data_addr(c, c.regs.si)
        di == Advance(c, c.regs.di, 1)
    IN  IF ~CanRead(c, srcc, n = 2) \/ ~CanRead(c, destt, n = 2) THEN Panic(c)
        ELSE [c EXCEPT !.regs.flags = CompareFlags(@, read_mem(c, srcc, n = 2),
                                          read_mem(c, destt, n = 2), n,
                                          IF n = 2 THEN 32768 ELSE 128),
                       !.regs.di = di, !.regs.si = Advance(c, di, 1)]

\* scasb compares the byte at ES:DI with AH, scasw the word with AX
scas(c, n) ==
    LET destt == extra_addr(c, c.regs.di)
        b == IF n = 2 THEN c.regs.ax ELSE Hi(c.regs.ax)
    IN  IF ~CanRead(c, destt, n = 2) THEN Panic(c)
        ELSE [c EXCEPT !.regs.flags = CompareFlags(@, read_mem(c, destt, n = 2), b, n, 128),
                       !.regs.di = Advance(c, c.regs.di, n)]

stos(c, n) ==
    [write_mem(c, extra_addr(c, c.regs.di),
               IF n = 2 THEN c.regs.ax ELSE Lo(c.regs.ax), n = 2)
        EXCEPT !.regs.di = Advance(c, c.regs.di, n)]

lods(c, n) ==
    LET src == data_addr(c, c.regs.si)
    IN  IF ~CanRead(c, src, n = 2) THEN Panic(c)
        ELSE [c EXCEPT !.regs = [set_reg(@, 0, n = 2, read_mem(c, src, n = 2))
                                    EXCEPT !.si = Advance(c, c.regs.si, n)]]

(***************************************************************************)
(* cpu.rs: Cpu::add, sub, inc, dec.  The operands are read as u16 (a byte   *)
(* operand zero-extended), the result is computed on 16 bits, and the zero  *)
(* and sign tests are made on that 16-bit result; carry, overflow and the   *)
(* stored value are taken at the width of the destination.                  *)
(***************************************************************************)
IsWord(op) == op.kind \in {"Mem16", "Reg16"}

\* Cpu::operand_value, and whether its read_exact succeeds
operand_value(c, op) ==
    CASE op.kind = "Mem16" -> MemU16(c.mem, op.v)
      [] op.kind = "Mem8" -> MemByte(c.mem, op.v)
      [] op.kind = "Reg8" -> get_reg(c.regs, op.v, FALSE)
      [] op.kind = "Reg16" -> get_reg(c.regs, op.v, TRUE)
      [] op.kind = "Seg" -> get_seg_reg(c.regs, op.v)
      [] OTHER -> op.v

OperandReadable(c, op) == IsMem(op) => CanRead(c, op.v, op.kind = "Mem16")

aux_add(a, b) == (a % 16) + (b % 16) > 15

\* `x as i8` / `x as i16`
AsSigned(x, word) == IF word THEN AsI16(x % 65536) ELSE AsI8(x % 256)

\* (dest as iW).overflowing_add / overflowing_sub (src as iW) .1
SignedOverflow(dest, src, word, isadd) ==
    LET r == IF isadd THEN AsSigned(dest, word) + AsSigned(src, word)
                      ELSE AsSigned(dest, word) - AsSigned(src, word)
        half == IF word THEN 32768 ELSE 128
    IN  r >= half \/ r < -half

\* variant: a sum of exactly 2^W does not count as a carry
UnsignedOverflow_AboveTop(dest, src, word, isadd) ==
    LET top == IF word THEN 65536 ELSE 256
    IN  IF isadd THEN (dest % top) + (src % top) > top ELSE (dest % top) < (src % top)

\* (dest as uW).overflowing_add / overflowing_sub (src as uW) .1
UnsignedOverflow(dest, src, word, isadd) ==
    LET top == IF word THEN 65536 ELSE 256
    IN  IF isadd THEN (dest % top) + (src % top) >= top ELSE (dest % top) < (src % top)

\* the u16 result: dest +/- src, then +/- 1 when the carry is taken in
ArithResult(dest, src, cin, isadd) ==
    IF isadd THEN W16(dest + src + cin) ELSE W16(dest + 131072 - src - cin)

\* variant: on 8 bits the carry is that of the result, carry-in included
arith_flags_CarryOfResult(bi, dest, src, result, word, isadd, withcf) ==
    SetIf(SetIf(SetIf(SetIf(SetIf(SetIf(
        IF withcf THEN clear_arith(bi)
        ELSE flag_clear(flag_clear(flag_clear(flag_clear(flag_clear(
                 bi, "af"), "sf"), "zf"), "of"), "pf"),
        IF isadd THEN aux_add(dest, src) ELSE aux_sub(dest, src), "af"),
        even_parity(result % 256), "pf"),
        result = 0, "zf"),
        SignedOverflow(dest, src, word, isadd), "of"),
        withcf /\ (IF word THEN UnsignedOverflow(dest, src, word, isadd) ELSE result >= 256),
        "cf"),
        result >= (IF word THEN 32768 ELSE 128), "sf")

\* the flags after add / sub (withcf: clear_arith and the carry test) and after
\* inc / dec (CF is neither cleared nor set)
arith_flags(bi, dest, src, result, word, isadd, withcf) ==
    SetIf(SetIf(SetIf(SetIf(SetIf(SetIf(
        IF withcf THEN clear_arith(bi)
        ELSE flag_clear(flag_clear(flag_clear(flag_clear(flag_clear(
                 bi, "af"), "sf"), "zf"), "of"), "pf"),
        IF isadd THEN aux_add(dest, src) ELSE aux_sub(dest, src), "af"),
        even_parity(result % 256), "pf"),
        result = 0, "zf"),
        SignedOverflow(dest, src, word, isadd), "of"),
        withcf /\ UnsignedOverflow(dest, src, word, isadd), "cf"),
        result >= (IF word THEN 32768 ELSE 128), "sf")

\* the match on the destination that ends each handler
arith_store(c, d, result) ==
    CASE d.kind = "Mem16" -> write_mem_u16(c, d.v, result)
      [] d.kind = "Mem8" -> write_mem_u8(c, d.v, result % 256)
      [] d.kind = "Reg8" -> [c EXCEPT !.regs = set_reg(@, d.v, FALSE, result)]
      [] d.kind = "Reg16" -> [c EXCEPT !.regs = set_reg(@, d.v, TRUE, result)]
      [] OTHER -> Panic(c)

arith(c, d, dest, src, cin, isadd, withcf, store) ==
    IF ~IsMem(d) /\ d.kind \notin {"Reg8", "Reg16"} THEN Panic(c)
    ELSE IF store
    THEN arith_store([c EXCEPT !.regs.flags =
                         arith_flags(@, dest, src, ArithResult(dest, src, cin, isadd),
                                     IsWord(d), isadd, withcf)],
                     d, ArithResult(dest, src, cin, isadd))
    ELSE [c EXCEPT !.regs.flags =
             arith_flags(@, dest, src, ArithResult(dest, src, cin, isadd),
                         IsWord(d), isadd, withcf)]

\* variant: the carry is never taken in
CarryIn_Never(c, with) == 0

CarryIn(c, with) == IF with /\ flag_get(c.regs.flags, "cf") THEN 1 ELSE 0

add(c, d, s, adc) ==
    IF ~OperandReadable(c, d) \/ ~OperandReadable(c, s) THEN Panic(c)
    ELSE arith(c, d, operand_value(c, d), operand_value(c, s), CarryIn(c, adc),
               TRUE, TRUE, TRUE)

sub(c, d, s, sbb, cmp) ==
    IF ~OperandReadable(c, d) \/ ~OperandReadable(c, s) THEN Panic(c)
    ELSE arith(c, d, operand_value(c, d), operand_value(c, s), CarryIn(c, sbb),
               FALSE, TRUE, ~cmp)

\* variant: the flags are cleared and the carry set as Cpu::add does
inc_WithCarry(c, d) ==
    IF ~OperandReadable(c, d) THEN Panic(c)
    ELSE arith(c, d, operand_value(c, d), 1, 0, TRUE, TRUE, TRUE)

inc(c, d) ==
    IF ~OperandReadable(c, d) THEN Panic(c)
    ELSE arith(c, d, operand_value(c, d), 1, 0, TRUE, FALSE, TRUE)

dec(c, d) ==
    IF ~OperandReadable(c, d) THEN Panic(c)
    ELSE arith(c, d, operand_value(c, d), 1, 0, FALSE, FALSE, TRUE)

(***************************************************************************)
(* cpu.rs: Cpu::div and Cpu::idiv.  The dividend is AL (8-bit form) or AX  *)
(* (16-bit form) alone; wrapping_div and wrapping_rem panic on a zero      *)
(* divisor in every build and wrap the one signed overflow, MIN / -1.      *)
(***************************************************************************)
div(c, d) ==
    IF d.kind \notin {"Reg8", "Mem8", "Reg16", "Mem16"} \/ ~OperandReadable(c, d)
    THEN Panic(c)
    ELSE IF operand_value(c, d) = 0 THEN Panic(c)
    ELSE IF IsWord(d)
    THEN [c EXCEPT !.regs.ax = c.regs.ax \div operand_value(c, d),
                   !.regs.dx = c.regs.ax % operand_value(c, d)]
    ELSE [c EXCEPT !.regs.ax = 256 * (Lo(c.regs.ax) % operand_value(c, d))
                                 + Lo(c.regs.ax) \div operand_value(c, d)]

idiv(c, d) ==
    IF d.kind \notin {"Reg8", "Mem8", "Reg16", "Mem16"} \/ ~OperandReadable(c, d)
    THEN Panic(c)
    ELSE IF operand_value(c, d) = 0 THEN Panic(c)
    ELSE LET top == IF IsWord(d) THEN 65536 ELSE 256
             a == AsSigned(c.regs.ax, IsWord(d))
             b == AsSigned(operand_value(c, d), IsWord(d))
             mag == (IF a < 0 THEN -a ELSE a) \div (IF b < 0 THEN -b ELSE b)
             q == IF (a < 0) = (b < 0) THEN mag ELSE -mag
             res == (q + top) % top
             resmod == ((a - q * b) + top) % top
         IN  IF IsWord(d) THEN [c EXCEPT !.regs.ax = res, !.regs.dx = resmod]
             ELSE [c EXCEPT !.regs.ax = 256 * resmod + res]

(***************************************************************************)
(* cpu.rs: Cpu::shift (SHL, SHR) and Cpu::shalr (SAR).  The count and the  *)
(* operand are read once, before the loop; every iteration shifts that    *)
(* same operand value by one bit (sh8 / sh16, shal8 / shal16), sets CF and *)
(* OF from it and stores the result, so the iterations after the first    *)
(* repeat the first.  A count of 0 runs no iteration.                      *)
(***************************************************************************)
shift(c, i, left) ==
    IF ~OperandReadable(c, i.src) \/ ~OperandReadable(c, i.dest) THEN Panic(c)
    ELSE IF operand_value(c, i.src) = 0 THEN c
    ELSE IF ~IsMem(i.dest) /\ i.dest.kind \notin {"Reg8", "Reg16"} THEN Panic(c)
    ELSE LET top == IF IsWord(i.dest) THEN 65536 ELSE 256
             val == operand_value(c, i.dest) % top
             res == IF left THEN (2 * val) % top ELSE val \div 2
             out == IF left THEN val >= top \div 2 ELSE val % 2 = 1
         IN  arith_store(
                 [c EXCEPT !.regs.flags =
                     SetIf(SetIf(flag_clear(flag_clear(@, "cf"), "of"), out, "cf"),
                           (val >= top \div 2) # (res >= top \div 2), "of")],
                 i.dest, res)

shalr(c, i) ==
    IF ~OperandReadable(c, i.src) \/ ~OperandReadable(c, i.dest) THEN Panic(c)
    ELSE IF operand_value(c, i.src) = 0 THEN c
    ELSE IF ~IsMem(i.dest) /\ i.dest.kind \notin {"Reg8", "Reg16"} THEN Panic(c)
    ELSE LET top == IF IsWord(i.dest) THEN 65536 ELSE 256
             val == operand_value(c, i.dest) % top
             res == val \div 2 + (IF val >= top \div 2 THEN top \div 2 ELSE 0)
         IN  arith_store(
                 [c EXCEPT !.regs.flags =
                     SetIf(flag_clear(flag_clear(@, "cf"), "of"), val % 2 = 1, "cf")],
                 i.dest, res)

(***************************************************************************)
(* cpu.rs: Cpu::execute for every opcode but the two repeat prefixes,      *)
(* whose loops are the actions below.  A segment-override prefix returns   *)
(* early; every other arm falls through to `self.seg_override = None`.     *)
(***************************************************************************)
OverrideOps == {"OverrideEs", "OverrideCs", "OverrideSs", "OverrideDs"}

\* variant: the Es and Ds arms exchanged
OverrideSeg_Exchanged(opcode) ==
    CASE opcode = "OverrideEs" -> "Ds" [] opcode = "OverrideCs" -> "Cs"
      [] opcode = "OverrideSs" -> "Ss" [] opcode = "OverrideDs" -> "Es"

OverrideSeg(opcode) ==
    CASE opcode = "OverrideEs" -> "Es" [] opcode = "OverrideCs" -> "Cs"
      [] opcode = "OverrideSs" -> "Ss" [] opcode = "OverrideDs" -> "Ds"

RepOps == {"Rep", "Repne"}

PushRegOps == {RegOpName[k] : k \in 17..24}

PopRegOps == {RegOpName[k] : k \in 25..32}

PushSegOps == {"PushEs", "PushCs", "PushSs", "PushDs"}

PopSegOps == {"PopEs", "PopSs", "PopDs"}

JccOps == {JccName[k] : k \in 1..16}

StringOps ==
    {"Movsb", "Movsw", "Cmpsb", "Cmpsw", "Stosb", "Stosw", "Lodsb", "Lodsw", "Scasb", "Scasw"}

TodoOps == {"Wait", "In", "Out", "Lock", "Cmc"}

IncRegOps == {RegOpName[k] : k \in 1..8}

DecRegOps == {RegOpName[k] : k \in 9..16}

\* the operand the IncXx / DecXx arm passes: Reg16 of 0 for Ax, 1 for Cx, 2 for Bx,
\* 3 for Dx, 4 .. 7 for Sp, Bp, Si, Di
IncDecOperand(opcode) ==
    Reg(TRUE, <<0, 1, 3, 2, 4, 5, 6, 7>>[
                 (((CHOOSE k \in 1..16 : RegOpName[k] = opcode) - 1) % 8) + 1])

\* the register field a PushXx / PopXx arm names
RegField(opcode) ==
    Reg16Name[(((CHOOSE k \in 17..32 : RegOpName[k] = opcode) - 1) % 8) + 1]

\* the segment field a PushXs / PopXs arm names
SegField(opcode) ==
    CASE opcode \in {"PushEs", "PopEs"} -> "es" [] opcode = "PushCs" -> "cs"
      [] opcode \in {"PushSs", "PopSs"} -> "ss" [] opcode \in {"PushDs", "PopDs"} -> "ds"

string_op(c, opcode) ==
    CASE opcode = "Movsb" -> movs(c, 1) [] opcode = "Movsw" -> movs(c, 2)
      [] opcode = "Cmpsb" -> cmps(c, 1) [] opcode = "Cmpsw" -> cmps(c, 2)
      [] opcode = "Scasb" -> scas(c, 1) [] opcode = "Scasw" -> scas(c, 2)
      [] opcode = "Stosb" -> stos(c, 1) [] opcode = "Stosw" -> stos(c, 2)
      [] opcode = "Lodsb" -> lods(c, 1) [] opcode = "Lodsw" -> lods(c, 2)

\* the opcodes whose handlers this model carries
Handled ==
    OverrideOps \cup PushRegOps \cup PopRegOps \cup PushSegOps \cup PopSegOps
        \cup JccOps \cup StringOps \cup TodoOps \cup IncRegOps \cup DecRegOps
        \cup {"Add", "Adc", "Sub", "Sbb", "Cmp", "Inc", "Div", "Idiv"}
        \cup {"Popf", "Sahf", "Iret", "Into", "Shl", "Shr", "Sar"}
        \cup {"Mov", "Lea", "Pop", "Push", "Ret", "Loop", "Loope", "Loopne", "Jcxz",
              "Hlt", "CallNear", "JmpNear", "Clc", "Stc", "Cli", "Sti", "Cld", "Std"}

execute(c, bld, i) ==
    LET op == i.opcode
        after ==
            CASE op \in PushSegOps -> push(c, c.regs[SegField(op)])
              [] op \in PopSegOps -> pop_into(c, SegField(op))
              [] op \in PushRegOps -> push(c, c.regs[RegField(op)])
              [] op \in PopRegOps -> pop_into(c, RegField(op))
              [] op \in JccOps -> jcc(c, bld, i)
              [] op = "Mov" -> mov(c, i)
              [] op = "Lea" -> lea(c, i)
              [] op = "Pop" -> pop2(c, i)
              [] op = "Push" -> push_mem(c, i)
              [] op \in StringOps -> string_op(c, op)
              [] op = "Ret" -> ret(c, i)
              [] op \in {"Loop", "Loope", "Loopne"} -> loopp(c, bld, i)
              [] op = "Jcxz" -> jcxz(c, bld, i)
              [] op = "Hlt" -> hlt(c)
              [] op = "CallNear" -> call_near(c, bld, i)
              [] op = "JmpNear" -> jmp_near(c, bld, i)
              [] op = "Clc" -> [c EXCEPT !.regs.flags = flag_clear(@, "cf")]
              [] op = "Stc" -> [c EXCEPT !.regs.flags = flag_set(@, "cf")]
              [] op = "Cli" -> [c EXCEPT !.regs.flags = flag_clear(@, "if")]
              [] op = "Sti" -> [c EXCEPT !.regs.flags = flag_set(@, "if")]
              [] op = "Cld" -> [c EXCEPT !.regs.flags = flag_clear(@, "df")]
              [] op = "Std" -> [c EXCEPT !.regs.flags = flag_set(@, "df")]
              [] op = "Add" -> add(c, i.dest, i.src, FALSE)
              [] op = "Adc" -> add(c, i.dest, i.src, TRUE)
              [] op = "Sub" -> sub(c, i.dest, i.src, FALSE, FALSE)
              [] op = "Sbb" -> sub(c, i.dest, i.src, TRUE, FALSE)
              [] op = "Cmp" -> sub(c, i.dest, i.src, FALSE, TRUE)
              [] op \in IncRegOps -> inc(c, IncDecOperand(op))
              [] op \in DecRegOps -> dec(c, IncDecOperand(op))
              [] op = "Inc" -> inc(c, i.dest)
              [] op = "Popf" -> popf(c)
              [] op = "Sahf" -> sahf(c)
              [] op = "Iret" -> iret(c)
              [] op = "Into" -> into(c)
              [] op = "Shl" -> shift(c, i, TRUE)
              [] op = "Shr" -> shift(c, i, FALSE)
              [] op = "Sar" -> shalr(c, i)
              [] op = "Div" -> div(c, i.dest)
              [] op = "Idiv" -> idiv(c, i.dest)
              [] op \in TodoOps -> Panic(c)
    IN  IF op \in OverrideOps
        THEN [c EXCEPT !.seg_override = OverrideSeg(op)]
        ELSE [after EXCEPT !.seg_override = "None"]

(***************************************************************************)
(* cpu.rs: Cpu::fetch.  None is returned at or past the end of the program *)
(* (after the seek); otherwise the instruction at CS:IP is decoded and IP  *)
(* advanced by the distance the cursor moved.                              *)
(***************************************************************************)
\* variant: None only when IP is strictly past the end of the program
FetchResult_StrictlyPast(c0, old_pos, d) ==
    IF c0.regs.ip > c0.prog_size
    THEN [c |-> c0, some |-> FALSE, inst |-> NoInst]
    ELSE IF d.panic
    THEN [c |-> Panic(c0), some |-> FALSE, inst |-> NoInst]
    ELSE [c |-> [c0 EXCEPT !.mem = MemSeekTo(@, old_pos + d.n),
                           !.regs.ip = W16(@ + ((old_pos + d.n) - old_pos))],
          some |-> TRUE, inst |-> d.inst]

\* variant: IP advanced by one byte less than the cursor moved
FetchResult_ShortByOne(c0, old_pos, d) ==
    IF c0.regs.ip >= c0.prog_size
    THEN [c |-> c0, some |-> FALSE, inst |-> NoInst]
    ELSE IF d.panic
    THEN [c |-> Panic(c0), some |-> FALSE, inst |-> NoInst]
    ELSE [c |-> [c0 EXCEPT !.mem = MemSeekTo(@, old_pos + d.n),
                           !.regs.ip = W16(@ + ((old_pos + d.n) - old_pos) + 65535)],
          some |-> TRUE, inst |-> d.inst]

FetchResult(c0, old_pos, d) ==
    IF c0.regs.ip >= c0.prog_size
    THEN [c |-> c0, some |-> FALSE, inst |-> NoInst]
    ELSE IF d.panic
    THEN [c |-> Panic(c0), some |-> FALSE, inst |-> NoInst]
    ELSE [c |-> [c0 EXCEPT !.mem = MemSeekTo(@, old_pos + d.n),
                           !.regs.ip = W16(@ + ((old_pos + d.n) - old_pos))],
          some |-> TRUE, inst |-> d.inst]

fetch(c, bld) ==
    FetchResult([c EXCEPT !.mem = MemSeekTo(@, code_addr(c, c.regs.ip))],
                code_addr(c, c.regs.ip), Decode(c, bld))

(***************************************************************************)
(* The programs loaded by load_code_vec, as byte vectors.  They follow the *)
(* shape of the programs in test.rs: register loads, then the instructions *)
(* under study, then HLT or the end of the program.                        *)
(***************************************************************************)
MovR16(r, v) == <<184 + r, Lo(v), Hi(v)>>

PUSH_AX == <<80>>

HLT == <<244>>


\* segment override, then two mod/reg/rm stores or loads
OverridePrograms ==
    {PUSH_AX \o MovR16(0, 2) \o <<142, 192>> \o MovR16(3, 64) \o MovR16(5, 128)
        \o pre \o i1 \o i2 \o tail :
        pre \in {<<>>, <<38>>, <<46>>, <<54>>, <<62>>},
        i1 \in {<<137, 7>>, <<137, 2>>, <<139, 71, 4>>, <<136, 135, 4, 0>>},
        i2 \in {<<137, 7>>, <<139, 2>>},
        tail \in {HLT}}

\* HLT followed by more instructions, HLT last, and no HLT at all
HaltPrograms ==
    {MovR16(0, 1) \o HLT \o MovR16(0, 2),
     MovR16(0, 1) \o HLT \o MovR16(0, 2) \o HLT \o MovR16(0, 3),
     MovR16(0, 1) \o HLT,
     MovR16(0, 1) \o MovR16(3, 2),
     <<243>> \o HLT \o MovR16(0, 2),
     <<>>}

\* REP / REPNE before each string operation, CX = n
RepPrograms ==
    {ext \o MovR16(1, n) \o MovR16(6, si) \o MovR16(7, di) \o dir \o pre \o <<op>> \o HLT :
        ext \in {<<>>, PUSH_AX}, n \in 0..MaxCount, si \in {0, 65}, di \in {64, 14},
        dir \in {<<>>, <<253>>}, pre \in {<<243>>, <<242>>}, op \in 164..175 \ {168, 169}}

\* push ax; mov ax, 2; mov es, ax; mov si, ..; mov di, ..; [std]; [es:] one string
\* operation; hlt
\* and: push ax; mov ax, 2; mov es, ax; mov cx, n; es: and rep / repne in either
\* order; one string operation; hlt
StringPrograms ==
    {PUSH_AX \o MovR16(0, 2) \o <<142, 192>> \o MovR16(6, si) \o MovR16(7, di) \o dir
        \o ovr \o <<op>> \o HLT :
        si \in {0, 2}, di \in {1, 65535}, dir \in {<<>>, <<253>>}, ovr \in {<<>>, <<38>>},
        op \in 164..175 \ {168, 169}}
      \cup {PUSH_AX \o MovR16(0, 2) \o <<142, 192>> \o MovR16(1, n) \o pre \o <<op>> \o HLT :
              n \in {0, 2}, pre \in {<<38, 243>>, <<243, 38>>, <<38, 242>>, <<242, 38>>},
              op \in {164, 166, 170, 172}}

\* FLAGS loaded from the word v: push ax; popf / sahf / three pushes and iret to
\* the hlt that follows it
FlagPrograms ==
    {MovR16(0, v) \o load \o HLT :
        v \in {0, 2, 4053, 54528, 65533, 65535},
        load \in {<<80, 157>>, <<158>>,
                  <<80>> \o MovR16(0, 0) \o <<80>> \o MovR16(0, 13) \o <<80>> \o <<207>>}}

\* n pushes of registers followed by n pops into registers
StackPrograms ==
    {MovR16(0, 4660) \o MovR16(3, 22136) \o MovR16(4, sp) \o pushes \o pops \o tail :
        sp \in {4095, 1, 2},
        pushes \in {<<80>>, <<80, 83>>, <<83, 80, 84>>, <<6>>, <<14, 22, 30>>},
        pops \in {<<>>, <<90>>, <<94, 95>>, <<88, 91, 93>>, <<31>>, <<7, 89, 90>>},
        tail \in {<<>>}}

\* near CALL to a subroutine ending in RET or RET imm16
CallPrograms ==
    {MovR16(4, sp) \o <<232, 2, 0>> \o HLT \o HLT \o MovR16(0, 7) \o r :
        sp \in {4095, 2}, r \in {<<195>>, <<194, 4, 0>>, <<194, 255, 255>>}}
        \cup {<<232, 1, 0>> \o HLT \o <<232, 1, 0>> \o <<195>> \o <<195>>}

\* jumps, loops, a byte move, flag instructions, an opcode whose arm is todo!(), and
\* stores and loads through DS = 0xFFFF at and below the end of the first megabyte,
\* a load from an address nothing was written to, and INTO after an addition that
\* overflows and after one that does not
\* and: push ax; mov bx, ..; mov bp, 32; mov si, 4; mov di, 8; mov ax, [rm + disp]
\* with an 8-bit or a 16-bit displacement; nop; nop; hlt
\* and: mov ax, 255; <alu> al, imm8 / <alu> ax, imm16; hlt
OtherPrograms ==
    {MovR16(1, 2) \o <<226, 254>> \o <<235, 1>> \o HLT \o <<227, 0>> \o <<116, 1>>,
     <<249, 114, 1>> \o HLT \o <<248, 250, 251, 252, 253>> \o <<176, 5>> \o <<141, 71, 4>>,
     <<245>>, <<195>>, <<184, 1>>, <<96>>, <<235, 254>>, <<199, 6, 64, 0, 52, 18>> \o <<255, 54, 64, 0>>
        \o <<143, 6, 66, 0>> \o <<161, 66, 0>>,
     MovR16(0, 65535) \o <<142, 216>> \o MovR16(3, 16) \o <<137, 7>> \o <<139, 15>> \o HLT,
     MovR16(0, 65535) \o <<142, 216>> \o MovR16(3, 15) \o <<136, 7>> \o <<138, 15>> \o HLT,
     MovR16(3, 64) \o <<139, 7>> \o HLT,
     MovR16(0, 32767) \o <<5, 1, 0>> \o <<206>> \o HLT,
     MovR16(0, 1) \o <<5, 1, 0>> \o <<206>> \o HLT}
      \cup {PUSH_AX \o MovR16(3, b) \o MovR16(5, 32) \o MovR16(6, 4) \o MovR16(7, 8)
                \o <<139, 64 * Len(d) + rm>> \o d \o <<144, 144>> \o HLT :
              b \in {64, 65535}, rm \in 0..7,
              d \in {<<4>>, <<255>>, <<16, 0>>, <<255, 255>>}}
      \cup {MovR16(0, 255) \o <<8 * k + 3 + Len(imm)>> \o imm \o HLT :
              k \in 0..7, imm \in {<<15>>, <<15, 1>>}}

\* mov cx, n; flag instructions; then a one-instruction body (sti) closed by a
\* backward LOOP, as in the test `loopy` of test.rs
LoopPrograms ==
    {MovR16(1, n) \o fl \o <<251>> \o <<226, 253>> \o HLT :
        n \in 0..MaxCount, fl \in {<<>>, <<249>>, <<249, 253>>}}

\* operand values: the edges of the nibble, the byte and the word
ArithValues == {0, 1, 15, 127, 128, 255, 32767, 32768, 65535}

\* source values for the two-operand programs
SourceValues == {0, 1, 128, 255, 32768, 65535}

\* mov ax, a; mov cx, b; cmp ax, cx; ja +1 / jg +1; sti; std; hlt, after the test
\* `flow0`
CmpJaPrograms ==
    {MovR16(0, a) \o MovR16(1, b) \o <<57, 200>> \o <<j, 1>> \o <<251, 253>> \o HLT :
        a \in ArithValues, b \in ArithValues, j \in {119, 127}}

\* the first byte of ADD, ADC, SUB, SBB, CMP r/m8, r8 (the word form is one more)
AluByte == {0, 16, 40, 24, 56}

\* mov ax, a; mov bx, b; [stc]; <op> al, bl / <op> ax, bx; hlt
\* and the same with adc ah, bl / sbb ah, bl
AluRegPrograms ==
    {MovR16(0, a) \o MovR16(3, b) \o cf \o <<op + w, 216>> \o HLT :
        a \in ArithValues, b \in SourceValues, cf \in {<<>>, <<249>>},
        op \in AluByte, w \in {0, 1}}
      \cup {MovR16(0, a) \o MovR16(3, b) \o cf \o <<op, 220>> \o HLT :
              a \in ArithValues, b \in SourceValues, cf \in {<<>>, <<249>>},
              op \in {16, 24}}

\* push ax; mov ax, a; mov bx, b; mov [64], ax; mov si, 64; [stc];
\* <op> [si], bl / <op> [si], bx; hlt
AluMemPrograms ==
    {PUSH_AX \o MovR16(0, a) \o MovR16(3, b) \o <<163, 64, 0>> \o MovR16(6, 64) \o cf
        \o <<op + w, 28>> \o HLT :
        a \in ArithValues, b \in {1, 255, 65535}, cf \in {<<>>, <<249>>},
        op \in AluByte, w \in {0, 1}}

\* push ax; mov ax, a; mov [64], ax; mov si, 64; [stc]; then one INC or DEC: the
\* single-byte forms of ax, bx, cx, dx, the r/m forms of al, ax and of [si]; hlt
IncDecPrograms ==
    {PUSH_AX \o MovR16(0, a) \o <<163, 64, 0>> \o MovR16(6, 64) \o cf \o op \o HLT :
        a \in ArithValues, cf \in {<<>>, <<249>>},
        op \in {<<64>>, <<72>>, <<65>>, <<67>>, <<74>>, <<254, 192>>, <<255, 192>>,
                 <<254, 200>>, <<255, 200>>, <<254, 4>>, <<255, 4>>, <<254, 12>>,
                 <<255, 12>>}}

\* mov ax, a; mov dx, d; mov bx, b; div / idiv bl or bx; stc; hlt
DivPrograms ==
    {MovR16(0, a) \o MovR16(2, d) \o MovR16(3, b) \o <<246 + w, op>> \o <<249>> \o HLT :
        a \in {0, 7, 128, 512, 32768, 65529}, d \in {0, 1}, b \in {0, 1, 2, 255, 65535},
        w \in {0, 1}, op \in {243, 251}}

\* mov ax, v; mov cx, n; [stc]; shl / shr / sar al or ax, by cl or by 1; hlt
ShiftPrograms ==
    {MovR16(0, v) \o MovR16(1, n) \o cf \o <<b1, op>> \o HLT :
        v \in {3, 129, 32769}, n \in 0..3, cf \in {<<>>, <<249>>},
        b1 \in 208..211, op \in {224, 232, 248}}

ArithPrograms ==
    CmpJaPrograms \cup AluRegPrograms \cup AluMemPrograms \cup IncDecPrograms
        \cup DivPrograms \cup ShiftPrograms

\* one short transfer (jmp, jb after stc, loop with CX = 2, jcxz with CX = 0) with
\* the displacement bytes at the ends of the range of i8
ShortPrograms ==
    {pre \o <<op, d>> \o HLT :
        pre \in {<<249>>}, op \in {235, 114, 227}, d \in {127, 128, 129, 255}}
      \cup {MovR16(1, 2) \o <<226, d>> \o HLT : d \in {127, 128, 129}}

\* the programs of the tests `stack` and `memstuff` of test.rs
TestPrograms ==
    {<<184, 70, 0, 185, 45, 0, 186, 89, 0, 187, 132, 3, 83, 82, 81, 80, 91, 90, 89, 88>>,
     <<198, 4, 0, 198, 68, 1, 1, 139, 4>>}

Programs ==
    TestPrograms \cup OverridePrograms \cup HaltPrograms \cup RepPrograms \cup StackPrograms
        \cup CallPrograms \cup OtherPrograms \cup LoopPrograms \cup ArithPrograms
        \cup ShortPrograms \cup StringPrograms \cup FlagPrograms

(***************************************************************************)
(* The run loops.  main.rs: while let Some(i) = cpu.fetch() { execute;     *)
(* if cpu.halt { break } }.  Cpu::fire: the same loop without the halt     *)
(* test.  Cpu::rep and Cpu::repne run inside execute: they fetch the next  *)
(* instruction themselves and either loop over it or execute it once.      *)
(***************************************************************************)
NoRep == [kind |-> "none", instr |-> NoInst, nested |-> FALSE]

\* where the run loop goes once execute has returned
LoopTail(c) == IF runloop = "main" /\ c.halt THEN "done" ELSE "fetch"

\* variant: rep runs MOVS / STOS / LODS under the loop of repe
RepKind_MovesUnderRepe(prefix, opcode) ==
    CASE opcode \in {"Cmpsb", "Cmpsw", "Scasb", "Scasw"} ->
           IF prefix = "Rep" THEN "repe" ELSE "repne"
      [] opcode \in {"Lodsb", "Lodsw", "Stosb", "Stosw", "Movsb", "Movsw"} ->
           IF prefix = "Rep" THEN "repe" ELSE "once"
      [] OTHER -> "once"

\* the loop Cpu::rep / Cpu::repne selects for the instruction it fetched
RepKind(prefix, opcode) ==
    CASE opcode \in {"Cmpsb", "Cmpsw", "Scasb", "Scasw"} ->
           IF prefix = "Rep" THEN "repe" ELSE "repne"
      [] opcode \in {"Lodsb", "Lodsw", "Stosb", "Stosw", "Movsb", "Movsw"} ->
           IF prefix = "Rep" THEN "all" ELSE "once"
      [] OTHER -> "once"

\* variant: the two break tests exchanged
RepBreak_Exchanged(kind, bi) ==
    (kind = "repe" /\ flag_get(bi, "zf")) \/ (kind = "repne" /\ ~flag_get(bi, "zf"))

\* the break test at the end of an iteration of repe (ZF clear) and repne (ZF set)
RepBreak(kind, bi) ==
    (kind = "repe" /\ ~flag_get(bi, "zf")) \/ (kind = "repne" /\ flag_get(bi, "zf"))

HistInit ==
    [steps |-> 0, trace |-> <<>>, b1 |-> 0, b2 |-> 0, ip0 |-> 0,
     before |-> CpuInit, count |-> 0, cx0 |-> 0, repkind |-> "none", stack |-> <<>>, calls |-> <<>>, pure |-> TRUE]

Init ==
    /\ \E prog \in Programs : cpu = load_code_vec(test_mode(CpuInit), prog)
    /\ pc = "fetch"
    /\ inst = NoInst
    /\ rep = NoRep
    /\ runloop \in {"main", "fire"}
    /\ build \in {"debug", "release"}
    /\ hist = [HistInit EXCEPT !.before = cpu]

\* history kept when the run loop fetches an instruction
HistFetch(h, c) ==
    [h EXCEPT !.steps = @ + 1,
              !.b1 = MemByte(c.mem, code_addr(c, c.regs.ip)),
              !.b2 = MemByte(c.mem, code_addr(c, c.regs.ip) + 1),
              !.ip0 = c.regs.ip]

\* history kept when an instruction is executed: the trace of opcodes, the Cpu before
\* it, the words pushed and not yet popped (each with the SP before its push), the
\* calls not yet returned from, and whether only pushes, pops and register loads ran
HistExec(h, c, i) ==
    LET op == i.opcode
        pushed == CASE op \in PushRegOps -> <<[v |-> c.regs[RegField(op)], sp |-> c.regs.sp]>>
                    [] op \in PushSegOps -> <<[v |-> c.regs[SegField(op)], sp |-> c.regs.sp]>>
                    [] OTHER -> <<>>
        popping == op \in PopRegOps \cup PopSegOps
        stack == IF popping /\ h.stack # <<>>
                 THEN SubSeq(h.stack, 1, Len(h.stack) - 1)
                 ELSE h.stack \o pushed
    IN  [h EXCEPT !.trace = Append(@, op),
                  !.before = c,
                  !.stack = stack,
                  !.calls = IF op = "CallNear" THEN Append(@, [ip |-> c.regs.ip, sp |-> c.regs.sp])
                            ELSE IF op = "Ret" /\ @ # <<>> THEN SubSeq(@, 1, Len(@) - 1)
                            ELSE @,
                  !.pure = /\ @
                           /\ op \in (PushRegOps \cup PopRegOps \cup PushSegOps \cup PopSegOps
                                          \cup {"Mov", "Hlt"}) \ {"PopSp", "PopSs"}
                           /\ ~(popping /\ h.stack = <<>>)
                           /\ op = "Mov" => /\ i.dest.kind \in {"Reg8", "Reg16"}
                                             /\ (i.dest # Reg(TRUE, 4) \/ h.stack = <<>>)]

\* the run loop calls fetch
Fetch ==
    /\ pc = "fetch"
    /\ hist.steps < MaxSteps
    /\ \E f \in {fetch(cpu, build)} :
           /\ cpu' = f.c
           /\ inst' = f.inst
           /\ pc' = IF f.c.panicked THEN "abort" ELSE IF f.some THEN "execute" ELSE "done"
           /\ hist' = IF f.some THEN HistFetch(hist, cpu) ELSE hist
    /\ UNCHANGED <<rep, runloop, build>>

\* execute of an instruction other than a repeat prefix, from the run loop or from
\* the `_ => self.execute(&instr)` arm of rep / repne
Execute ==
    /\ pc = "execute"
    /\ inst.opcode \in Handled
    /\ \E c1 \in {execute(cpu, build, inst)} :
           /\ cpu' = c1
           /\ pc' = IF c1.panicked THEN "abort"
                    ELSE IF rep.nested THEN "rep_exit" ELSE LoopTail(c1)
    /\ hist' = HistExec(hist, cpu, inst)
    /\ UNCHANGED <<inst, rep, runloop, build>>

\* execute of Rep or Repne up to the choice of loop: the fetch inside rep / repne
EnterRep ==
    /\ pc = "execute"
    /\ inst.opcode \in RepOps
    /\ \E f \in {fetch(cpu, build)} :
         \E kind \in {IF f.some THEN RepKind(inst.opcode, f.inst.opcode) ELSE "none"} :
           /\ cpu' = f.c
           /\ pc' = CASE f.c.panicked -> "abort"
                      [] ~f.some -> "rep_exit"
                      [] kind = "once" -> "execute"
                      [] OTHER -> "rep_loop"
           /\ inst' = IF kind = "once" THEN f.inst ELSE inst
           /\ rep' = [kind |-> kind, instr |-> f.inst, nested |-> TRUE]
           /\ hist' = [HistExec(hist, cpu, inst) EXCEPT
                          !.count = 0, !.cx0 = cpu.regs.cx, !.repkind = kind]
    /\ UNCHANGED <<runloop, build>>

\* one iteration of the while loop of rep / repe / repne
RepIterate ==
    /\ pc = "rep_loop"
    /\ cpu.regs.cx # 0
    /\ \E c1 \in {execute(cpu, build, rep.instr)} :
           /\ cpu' = IF c1.panicked THEN c1 ELSE [c1 EXCEPT !.regs.cx = W16(@ + 65535)]
           /\ pc' = CASE c1.panicked -> "abort"
                      [] RepBreak(rep.kind, c1.regs.flags) -> "rep_exit"
                      [] OTHER -> "rep_loop"
    /\ hist' = [hist EXCEPT !.count = @ + 1]
    /\ UNCHANGED <<inst, rep, runloop, build>>

\* rep / repne return (loop condition false, break, nothing fetched, or the single
\* execute done); the execute that called them clears the override and returns
RepExit ==
    /\ pc = "rep_exit" \/ (pc = "rep_loop" /\ cpu.regs.cx = 0)
    /\ cpu' = [cpu EXCEPT !.seg_override = "None"]
    /\ pc' = LoopTail(cpu)
    /\ rep' = NoRep
    /\ UNCHANGED <<inst, runloop, build, hist>>

Next == Fetch \/ Execute \/ EnterRep \/ RepIterate \/ RepExit

Spec == Init /\ [][Next]_vars

\* the process runs on: every enabled step of the loops is eventually taken
FairSpec == Spec /\ WF_vars(Next)

(***************************************************************************)
(* The register file driven directly, as the tests a, b, test1 and test2   *)
(* of test.rs do: a Cpu from Cpu::init whose general registers and FLAGS   *)
(* hold one of a few patterns, then up to MaxCalls calls of the segment    *)
(* setters, the FLAGS bit accessors and the register setters.  `inst`      *)
(* records the call made last and hist.before the Cpu before it; a failed  *)
(* assertion ends the run.                                                 *)
(***************************************************************************)
MaxCalls == 2

FlagNames == {"cf", "pf", "af", "zf", "sf", "tf", "if", "df", "of"}

UnitInit ==
    /\ \E w \in {4660, 65535}, f \in {2, 4055} :
          cpu = [CpuInit EXCEPT !.regs.ax = w, !.regs.bx = w, !.regs.cx = w,
                                !.regs.dx = w, !.regs.flags = f]
    /\ pc = "unit"
    /\ inst = [opcode |-> "init", dest |-> 0, src |-> 0]
    /\ rep = NoRep
    /\ runloop = "fire"
    /\ build = "debug"
    /\ hist = [HistInit EXCEPT !.before = cpu]

\* regs.set_cs / set_ds / set_ss / set_es (val)
SegCall ==
    /\ pc = "unit" /\ hist.steps < MaxCalls
    /\ \E name \in {"cs", "ds", "ss", "es"}, val \in {3, 4096, 1048560, 1048576} :
          /\ inst' = [opcode |-> "set_seg", dest |-> name, src |-> val]
          /\ cpu' = IF SegAligned(val) THEN [cpu EXCEPT !.regs = set_seg_linear(@, name, val)]
                                       ELSE Panic(cpu)
          /\ pc' = IF SegAligned(val) THEN "unit" ELSE "abort"
    /\ hist' = [hist EXCEPT !.steps = @ + 1, !.before = cpu]
    /\ UNCHANGED <<rep, runloop, build>>

\* regs.flags.set_X() / clear_X()
FlagCall ==
    /\ pc = "unit" /\ hist.steps < MaxCalls
    /\ \E f \in FlagNames, set \in BOOLEAN :
          /\ inst' = [opcode |-> "flag", dest |-> f, src |-> set]
          /\ cpu' = [cpu EXCEPT !.regs.flags = IF set THEN flag_set(@, f) ELSE flag_clear(@, f)]
    /\ pc' = "unit"
    /\ hist' = [hist EXCEPT !.steps = @ + 1, !.before = cpu]
    /\ UNCHANGED <<rep, runloop, build>>

\* set_reg(id, word, val): set_al .. set_bh for a byte, set_ax .. set_di for a word
RegCall ==
    /\ pc = "unit" /\ hist.steps < MaxCalls
    /\ \E id \in 0..7, word \in BOOLEAN, val \in {18, 43981} :
          /\ inst' = [opcode |-> IF word THEN "set_reg16" ELSE "set_reg8", dest |-> id,
                      src |-> val]
          /\ cpu' = [cpu EXCEPT !.regs = set_reg(@, id, word, val)]
    /\ pc' = "unit"
    /\ hist' = [hist EXCEPT !.steps = @ + 1, !.before = cpu]
    /\ UNCHANGED <<rep, runloop, build>>

UnitNext == SegCall \/ FlagCall \/ RegCall

UnitSpec == UnitInit /\ [][UnitNext]_vars

(***************************************************************************)
(* Properties.  LastOp is the opcode of the instruction executed last and  *)
(* PrevOp the one before it; MemOperand is the memory operand of an        *)
(* instruction decoded from a mod/reg/rm byte.                             *)
(***************************************************************************)
Executed == Len(hist.trace)

LastOp == IF Executed >= 1 THEN hist.trace[Executed] ELSE "none"

PrevOp == IF Executed >= 2 THEN hist.trace[Executed - 1] ELSE "none"

SameButIp(r1, r2) == [r1 EXCEPT !.ip = 0] = [r2 EXCEPT !.ip = 0]

SameMemory(m1, m2) == m1.vec = m2.vec /\ m1.len = m2.len

\* the instruction in `inst` was decoded by the run loop from a mod/reg/rm byte and
\* one of its operands is a memory operand
HasModRmOperand ==
    /\ pc = "execute" /\ ~rep.nested
    /\ (hist.b1 \div 4) # 40
    /\ IsMem(inst.dest) \/ IsMem(inst.src)

MemOperand == IF IsMem(inst.dest) THEN inst.dest ELSE inst.src

\* the default segment register of the addressing form in the mod/reg/rm byte b2:
\* SS for the forms based on BP, DS for the others
DefaultSegField(b2) ==
    IF (b2 % 8) \in {2, 3} \/ ((b2 % 8) = 6 /\ (b2 \div 64) # 0) THEN "ss" ELSE "ds"

\* the segment register a segment-override prefix names
PrefixSegField(opcode) ==
    CASE opcode = "OverrideEs" -> "es" [] opcode = "OverrideCs" -> "cs"
      [] opcode = "OverrideSs" -> "ss" [] opcode = "OverrideDs" -> "ds"

\* C1: executing OverrideEs / OverrideCs / OverrideSs / OverrideDs leaves the pending
\* segment override set to that very segment when execute returns, and changes no
\* register, no flag and no byte of memory.
C1_OverrideSetsPendingSegment ==
    [][(pc = "execute" /\ inst.opcode \in OverrideOps) =>
          /\ pc' # "abort"
          /\ cpu'.seg_override = (CASE inst.opcode = "OverrideEs" -> "Es"
                                    [] inst.opcode = "OverrideCs" -> "Cs"
                                    [] inst.opcode = "OverrideSs" -> "Ss"
                                    [] inst.opcode = "OverrideDs" -> "Ds")
          /\ cpu'.regs = cpu.regs
          /\ SameMemory(cpu'.mem, cpu.mem)
          /\ cpu'.halt = cpu.halt]_vars

C1_Witness ==
    /\ pc = "fetch" /\ LastOp = "OverrideEs" /\ cpu.seg_override = "Es"
    /\ cpu.regs.es # cpu.regs.ds /\ cpu.regs = hist.before.regs

\* C2: in <override prefix X>; I1; I2 the mod/reg/rm memory operand of I1 resolves to
\* (base of X) + offset whatever its default segment, the override is None once I1
\* has been executed (a repeat prefix has been executed when its nested execute has
\* returned), and the memory operand of I2 resolves with its default segment.
C2_OverrideLastsOneInstruction ==
    /\ (HasModRmOperand /\ LastOp \in OverrideOps) =>
          MemOperand.v = 16 * cpu.regs[PrefixSegField(LastOp)] + MemOperand.offt
    /\ (PrevOp \in OverrideOps /\ LastOp \notin OverrideOps /\ ~rep.nested
            /\ pc \in {"fetch", "execute", "done"}) =>
          cpu.seg_override = "None"
    /\ (HasModRmOperand /\ PrevOp \in OverrideOps /\ LastOp \notin OverrideOps) =>
          MemOperand.v = 16 * cpu.regs[DefaultSegField(hist.b2)] + MemOperand.offt

C2_Witness ==
    /\ HasModRmOperand /\ PrevOp = "OverrideEs" /\ LastOp = "Mov"
    /\ hist.before.mem.vec # cpu.mem.vec /\ cpu.seg_override = "None"
    /\ cpu.regs.es # cpu.regs.ds /\ cpu.regs.ss # cpu.regs.es
    /\ DefaultSegField(hist.b2) = "ss"

\* C3: once HLT has been executed no further instruction is executed, in either run
\* loop: a Hlt in the trace of executed instructions is its last entry.
C3_NothingRunsAfterHlt ==
    \A k \in 1..(Executed - 1) : hist.trace[k] # "Hlt"

MoveStringOps == {"Movsb", "Movsw", "Stosb", "Stosw", "Lodsb", "Lodsw"}

CompareStringOps == {"Cmpsb", "Cmpsw", "Scasb", "Scasw"}

\* the step on which execute of a repeat prefix returns
RepReturns == rep.nested /\ rep' = NoRep

\* C4 (what REP has done when it returns): REP before MOVS, STOS or LODS with CX = n
\* has executed the string operation exactly n times, one per decrement of CX, and
\* returns with CX = 0; with n = 0 it leaves every register but IP, every flag and
\* every byte of memory as they were.
C4_RepCounts ==
    /\ (RepReturns /\ LastOp = "Rep" /\ rep.instr.opcode \in MoveStringOps) =>
          /\ hist.count = hist.cx0
          /\ cpu'.regs.cx = 0
          /\ hist.cx0 = 0 => /\ SameButIp(cpu'.regs, hist.before.regs)
                             /\ SameMemory(cpu'.mem, hist.before.mem)
                             /\ cpu'.halt = hist.before.halt
    /\ (pc = "rep_loop" /\ cpu.regs.cx # 0 /\ LastOp = "Rep" /\ pc' # "abort"
            /\ rep.instr.opcode \in MoveStringOps) =>
          /\ cpu'.regs.cx = cpu.regs.cx - 1
          /\ hist'.count = hist.count + 1

\* C4: REP before MOVS, STOS or LODS executes the string operation CX times and ends
\* with CX = 0, does nothing but advance IP when CX = 0, and its loop always ends.
C4_RepRunsCxTimesAndEnds ==
    /\ [][C4_RepCounts]_vars
    /\ (pc = "rep_loop" /\ rep.instr.opcode \in MoveStringOps) ~> (pc # "rep_loop")

C4_Witness ==
    /\ pc \in {"fetch", "done"} /\ LastOp = "Rep" /\ hist.repkind = "all"
    /\ hist.cx0 >= 2 /\ hist.count = hist.cx0 /\ cpu.regs.cx = 0
    /\ ~SameMemory(cpu.mem, hist.before.mem)

\* an iteration of a repeat loop has left the loop stopped: by break, or with CX = 0
Stopped == pc' = "rep_exit" \/ cpu'.regs.cx = 0

\* C5: REP / REPE before CMPS or SCAS stops after the first iteration that leaves
\* ZF = 0 or CX = 0, REPNE after the first that leaves ZF = 1 or CX = 0, and CX has
\* gone down by exactly one for every iteration executed, the last one included.
C5_RepeRepneStop ==
    [][/\ (pc = "rep_loop" /\ cpu.regs.cx # 0 /\ pc' # "abort"
              /\ rep.instr.opcode \in CompareStringOps) =>
            /\ cpu'.regs.cx = cpu.regs.cx - 1
            /\ hist'.count = hist.count + 1
            /\ LastOp = "Rep" =>
                  (Stopped <=> (~flag_get(cpu'.regs.flags, "zf") \/ cpu'.regs.cx = 0))
            /\ LastOp = "Repne" =>
                  (Stopped <=> (flag_get(cpu'.regs.flags, "zf") \/ cpu'.regs.cx = 0))
       /\ (RepReturns /\ LastOp \in RepOps /\ rep.instr.opcode \in CompareStringOps) =>
            cpu.regs.cx = hist.cx0 - hist.count]_vars

C5_Witness ==
    /\ pc = "rep_exit" /\ LastOp = "Rep" /\ rep.instr.opcode \in CompareStringOps
    /\ hist.count >= 2 /\ cpu.regs.cx # 0 /\ ~flag_get(cpu.regs.flags, "zf")

\* C6: fetch returns None exactly when IP >= the program size, and then it changes
\* no register (IP included), no flag and no byte of memory, and the run loop ends
\* for good; when IP is below the program size fetch returns an instruction.
C6_FetchNoneAtEnd ==
    [][/\ pc # "done"
       /\ pc = "fetch" =>
            /\ pc' = "done" <=> cpu.regs.ip >= cpu.prog_size
            /\ pc' = "done" => /\ cpu'.regs = cpu.regs
                               /\ SameMemory(cpu'.mem, cpu.mem)
                               /\ cpu'.halt = cpu.halt
            /\ pc' \notin {"done", "abort"} => pc' = "execute" /\ inst' # NoInst
       /\ (pc = "execute" /\ inst.opcode \in RepOps) =>
            /\ pc' = "rep_exit" <=> cpu.regs.ip >= cpu.prog_size
            /\ pc' = "rep_exit" => /\ cpu'.regs = cpu.regs
                                   /\ SameMemory(cpu'.mem, cpu.mem)]_vars

C6_Witness ==
    /\ pc = "done" /\ ~cpu.halt /\ cpu.regs.ip >= cpu.prog_size /\ Executed >= 2
    /\ cpu.regs = [hist.before.regs EXCEPT !.ax = cpu.regs.ax]

ControlTransferOps ==
    JccOps \cup {"JmpNear", "JmpFar", "CallNear", "CallFar", "Ret", "Retf", "Loop",
                 "Loope", "Loopne", "Jcxz", "Int", "Into", "Iret"}

\* C7: IP after fetch is IP before fetch plus the number of bytes the decoder moved
\* the cursor over (modulo 2^16); executing an instruction that is neither a control
\* transfer nor a repeat prefix leaves IP alone; so the fetch after such an
\* instruction starts at the byte where the decoding of that instruction ended.
C7_IpFollowsDecoder ==
    [][/\ (pc = "fetch" /\ pc' = "execute") =>
            /\ cpu'.mem.pos > code_addr(cpu, cpu.regs.ip)
            /\ cpu'.regs.ip = (cpu.regs.ip + (cpu'.mem.pos - code_addr(cpu, cpu.regs.ip)))
                                 % 65536
            /\ (LastOp \notin ControlTransferOps \cup RepOps \cup {"none"} /\ ~rep.nested)
                  => code_addr(cpu, cpu.regs.ip) = cpu.mem.pos
       /\ (pc = "execute" /\ pc' # "abort"
              /\ inst.opcode \notin ControlTransferOps \cup RepOps) =>
            cpu'.regs.ip = cpu.regs.ip]_vars

C7_Witness ==
    /\ pc = "execute" /\ Executed >= 3 /\ LastOp = "Mov" /\ PrevOp = "Mov"
    /\ hist.b1 = 136 /\ cpu.regs.ip = hist.ip0 + 4

\* the word pushed last and not yet popped, with the SP before its push
Top == hist.stack[Len(hist.stack)]

\* C8: after pushes of registers with no other stack write, each POP into a register
\* other than SP returns the word pushed last and not yet popped, and puts SP back
\* to its value before that push: n PUSHes then n POPs return the values in reverse
\* order and restore SP.
C8_PushPopLifo ==
    [][(pc = "execute" /\ inst.opcode \in PopRegOps \ {"PopSp"} /\ pc' # "abort"
            /\ hist.pure /\ hist.stack # <<>>) =>
          /\ cpu'.regs[RegField(inst.opcode)] = Top.v
          /\ cpu'.regs.sp = Top.sp]_vars

C8_Witness ==
    /\ hist.pure /\ hist.stack = <<>> /\ LastOp = "PopBp" /\ PrevOp = "PopBx"
    /\ cpu.regs.bp = 22136 /\ cpu.regs.bx = 4660 /\ cpu.regs.ax = 65533 /\ cpu.regs.sp = 1

\* the physical address SS:offset
StackByte(offset) == (16 * cpu.regs.ss + offset) % 1048576

\* the register field a PUSH / POP opcode names
StackOpField(opcode) ==
    IF opcode \in PushSegOps \cup PopSegOps THEN SegField(opcode) ELSE RegField(opcode)

\* C9: PUSH lowers SP by 2 (modulo 2^16) and stores the word at SS:SP, low byte
\* first, changing nothing else; POP loads the word at SS:SP and then raises SP by 2
\* (modulo 2^16), changing no other register and no memory.  A segment register is
\* pushed and popped as its 16-bit segment value.
C9_PushPopWord ==
    [][/\ (pc = "execute" /\ pc' # "abort" /\ inst.opcode \in PushRegOps \cup PushSegOps) =>
            /\ cpu'.regs = [cpu.regs EXCEPT !.sp = (@ + 65534) % 65536]
            /\ MemByte(cpu'.mem, StackByte(cpu'.regs.sp))
                  = cpu.regs[StackOpField(inst.opcode)] % 256
            /\ MemByte(cpu'.mem, StackByte(cpu'.regs.sp) + 1)
                  = cpu.regs[StackOpField(inst.opcode)] \div 256
            /\ \A a \in DOMAIN cpu.mem.vec :
                  a \notin {StackByte(cpu'.regs.sp), StackByte(cpu'.regs.sp) + 1}
                     => MemByte(cpu'.mem, a) = MemByte(cpu.mem, a)
       /\ (pc = "execute" /\ pc' # "abort" /\ inst.opcode \in PopRegOps \cup PopSegOps) =>
            /\ cpu'.regs = [[cpu.regs EXCEPT !.sp = (@ + 2) % 65536]
                               EXCEPT ![StackOpField(inst.opcode)] =
                                   MemByte(cpu.mem, StackByte(cpu.regs.sp))
                                      + 256 * MemByte(cpu.mem, StackByte(cpu.regs.sp) + 1)]
            /\ SameMemory(cpu'.mem, cpu.mem)]_vars

C9_Witness ==
    /\ LastOp = "PopCx" /\ PrevOp = "PopEs" /\ cpu.regs.cx = 256 /\ cpu.regs.ss = 256
    /\ cpu.regs.sp = 0 /\ "PushSs" \in {hist.trace[k] : k \in 1..Executed}

\* the 16-bit word of the instruction bytes at CS:offset
CodeWord(offset) ==
    MemByte(cpu.mem, (16 * cpu.regs.cs + offset) % 1048576)
       + 256 * MemByte(cpu.mem, (16 * cpu.regs.cs + offset + 1) % 1048576)

\* C10: a near CALL rel16 pushes the offset of the instruction after it and then
\* branches relative to that offset; a RET reached with SP where the CALL left it
\* resumes at the instruction after the CALL with SP as it was before the CALL, and
\* RET imm16 then adds imm16 to SP (modulo 2^16).
C10_CallRet ==
    [][/\ (pc = "execute" /\ pc' # "abort" /\ inst.opcode = "CallNear" /\ hist.b1 = 232) =>
            /\ cpu'.regs.sp = (cpu.regs.sp + 65534) % 65536
            /\ MemU16(cpu'.mem, StackByte(cpu'.regs.sp)) = (hist.ip0 + 3) % 65536
            /\ cpu'.regs.ip = (hist.ip0 + 3 + CodeWord(hist.ip0 + 1)) % 65536
       /\ (pc = "execute" /\ pc' # "abort" /\ inst.opcode = "Ret" /\ hist.calls # <<>>
              /\ cpu.regs.sp = (hist.calls[Len(hist.calls)].sp + 65534) % 65536) =>
            /\ cpu'.regs.ip = hist.calls[Len(hist.calls)].ip
            /\ cpu'.regs.sp = (hist.calls[Len(hist.calls)].sp
                                  + (IF hist.b1 = 194 THEN CodeWord(hist.ip0 + 1) ELSE 0))
                                 % 65536]_vars

C10_Witness ==
    /\ LastOp = "Ret" /\ hist.b1 = 194 /\ hist.calls = <<>> /\ pc = "fetch"
    /\ cpu.regs.ip = 6 /\ cpu.regs.sp = 4094 /\ cpu.regs.ax = 7

\* the number of times opcode has been executed
TimesExecuted(opcode) == Cardinality({k \in 1..Executed : hist.trace[k] = opcode})

\* the displacement byte d as a 16-bit two's complement word
SignExtended(d) == IF d >= 128 THEN d + 65280 ELSE d

\* the program is mov cx, n (n >= 1) followed by a body of one sti closed by the
\* LOOP that has been fetched
InLoopProgram ==
    /\ MemByte(cpu.mem, 0) = 185 /\ MemU16(cpu.mem, 1) >= 1
    /\ hist.b2 = 253 /\ MemByte(cpu.mem, hist.ip0 - 1) = 251

\* C11: LOOP lowers CX by 1 (modulo 2^16), changes no flag and no other register,
\* and branches iff the new CX is not 0; a one-instruction body closed by a backward
\* LOOP and entered with CX = n >= 1 has run exactly n times when the LOOP falls
\* through, with CX = 0.  (Where the branch lands for the displacement byte 0x80
\* is the subject of C13; here the branch is only required to be taken.)
C11_LoopCountsCx ==
    [][(pc = "execute" /\ inst.opcode = "Loop" /\ pc' # "abort") =>
          /\ cpu'.regs = [cpu.regs EXCEPT !.cx = (@ + 65535) % 65536, !.ip = cpu'.regs.ip]
          /\ IF cpu.regs.cx # 1
             THEN /\ cpu'.regs.ip # cpu.regs.ip
                  /\ hist.b2 # 128 =>
                        cpu'.regs.ip = (cpu.regs.ip + SignExtended(hist.b2)) % 65536
             ELSE cpu'.regs.ip = cpu.regs.ip
          /\ (InLoopProgram /\ cpu'.regs.ip = cpu.regs.ip) =>
                /\ TimesExecuted("Sti") = MemU16(cpu.mem, 1)
                /\ cpu'.regs.cx = 0]_vars

C11_Witness ==
    /\ pc = "fetch" /\ LastOp = "Loop" /\ cpu.regs.cx = 0 /\ TimesExecuted("Sti") = 3
    /\ TimesExecuted("Loop") = 3 /\ flag_get(cpu.regs.flags, "cf")
    /\ flag_get(cpu.regs.flags, "df")

\* the program is mov ax, a; mov cx, b; cmp ax, cx; ja +1; sti; std; hlt
InCmpJaProgram ==
    /\ MemByte(cpu.mem, 0) = 184 /\ MemByte(cpu.mem, 3) = 185
    /\ MemU16(cpu.mem, 6) = 57 + 256 * 200 /\ MemU16(cpu.mem, 8) = 119 + 256 * 1
    /\ MemU16(cpu.mem, 10) = 251 + 256 * 253

\* C12: after CMP a, b on 16-bit registers the JA / JNBE that follows is taken iff
\* a > b unsigned; not taken, execution goes on with the next instruction in
\* sequence, and taken, the instruction between the jump and its target is skipped.
C12_JaAfterCmp ==
    [][/\ (pc = "execute" /\ inst.opcode = "Jnbe" /\ InCmpJaProgram /\ LastOp = "Cmp"
              /\ pc' # "abort") =>
            /\ cpu.regs.ax = MemU16(cpu.mem, 1) /\ cpu.regs.cx = MemU16(cpu.mem, 4)
            /\ cpu'.regs = [cpu.regs EXCEPT !.ip = IF cpu.regs.ax > cpu.regs.cx
                                                  THEN 11 ELSE 10]
       /\ (pc = "execute" /\ inst.opcode = "Std" /\ InCmpJaProgram) =>
            TimesExecuted("Sti") = (IF cpu.regs.ax > cpu.regs.cx THEN 0 ELSE 1)
       /\ (pc = "execute" /\ inst.opcode = "Sti" /\ InCmpJaProgram) =>
            LastOp = "Jnbe" /\ cpu.regs.ax <= cpu.regs.cx]_vars

C12_Witness ==
    /\ InCmpJaProgram /\ pc = "execute" /\ inst.opcode = "Std" /\ LastOp = "Jnbe"
    /\ cpu.regs.ax = 32768 /\ cpu.regs.cx = 32767

\* the short transfer in `inst` is taken
ShortTaken ==
    CASE inst.opcode \in JccOps -> JccTaken(cpu.regs.flags, inst.opcode)
      [] inst.opcode = "JmpNear" -> hist.b1 = 235
      [] inst.opcode = "Loop" -> cpu.regs.cx # 1
      [] inst.opcode = "Loope" -> cpu.regs.cx # 1 /\ flag_get(cpu.regs.flags, "zf")
      [] inst.opcode = "Loopne" -> cpu.regs.cx # 1 /\ ~flag_get(cpu.regs.flags, "zf")
      [] inst.opcode = "Jcxz" -> cpu.regs.cx = 0
      [] OTHER -> FALSE

\* C13: a taken short transfer with displacement byte d does not fail and sets IP to
\* (IP after the instruction + d sign-extended) modulo 2^16, for every d in
\* -128 .. 127.
C13_ShortTransferTarget ==
    [][(pc = "execute" /\ ShortTaken) =>
          /\ pc' # "abort"
          /\ cpu'.regs.ip = (cpu.regs.ip + SignExtended(hist.b2)) % 65536]_vars

ArithOps == {"Add", "Adc", "Sub", "Sbb", "Cmp"}

\* the instruction in `inst` is a DEC: a single-byte register form, or FE /1, FF /1
IsDecrement ==
    \/ inst.opcode \in DecRegOps
    \/ inst.opcode = "Inc" /\ (hist.b2 \div 8) % 8 = 1

\* the destination the instruction names: for the single-byte forms the register
\* in the low three bits of the opcode byte
NamedDest ==
    IF inst.opcode \in IncRegOps \cup DecRegOps THEN Reg(TRUE, hist.b1 % 8) ELSE inst.dest

Modulus(op) == IF IsWord(op) THEN 65536 ELSE 256

DestValue == operand_value(cpu, NamedDest) % Modulus(NamedDest)

SrcValue ==
    IF inst.opcode \in ArithOps THEN operand_value(cpu, inst.src) % Modulus(NamedDest)
    ELSE 1

CarryInValue ==
    IF inst.opcode \in {"Adc", "Sbb"} /\ flag_get(cpu.regs.flags, "cf") THEN 1 ELSE 0

IsAddition == inst.opcode \in {"Add", "Adc"} \/ (inst.opcode \notin ArithOps /\ ~IsDecrement)

\* the result of the instruction in `inst` modulo 2^W
WidthResult ==
    IF IsAddition THEN (DestValue + SrcValue + CarryInValue) % Modulus(NamedDest)
    ELSE (DestValue + 131072 - SrcValue - CarryInValue) % Modulus(NamedDest)

ArithStep(ops) == pc = "execute" /\ inst.opcode \in ops /\ pc' # "abort"

\* C14: after ADD, ADC, SUB, SBB, CMP, INC or DEC on operands of width W, ZF is set
\* iff the result modulo 2^W is 0, SF iff bit W-1 of the result is set, and PF iff
\* the low 8 bits of the result have even parity.
C14_ResultFlags ==
    [][ArithStep(ArithOps \cup IncRegOps \cup DecRegOps \cup {"Inc"}) =>
          /\ flag_get(cpu'.regs.flags, "zf") <=> (WidthResult = 0)
          /\ flag_get(cpu'.regs.flags, "sf") <=> (WidthResult >= Modulus(NamedDest) \div 2)
          /\ flag_get(cpu'.regs.flags, "pf") <=> even_parity(WidthResult % 256)]_vars

\* x modulo m read as a two's-complement number
Signed(x, m) == IF x >= m \div 2 THEN x - m ELSE x

Representable(v, m) == -(m \div 2) <= v /\ v < m \div 2

\* C15: ADD on operands a and b of width W stores (a + b) mod 2^W in the
\* destination and sets CF iff a + b >= 2^W, OF iff the signed sum is not
\* representable in W bits, and AF iff (a & 0xF) + (b & 0xF) > 0xF.
C15_AddResultAndFlags ==
    [][ArithStep({"Add"}) =>
          /\ operand_value(cpu', inst.dest) = (DestValue + SrcValue) % Modulus(inst.dest)
          /\ flag_get(cpu'.regs.flags, "cf") <=> (DestValue + SrcValue >= Modulus(inst.dest))
          /\ flag_get(cpu'.regs.flags, "of") <=>
                ~Representable(Signed(DestValue, Modulus(inst.dest))
                                 + Signed(SrcValue, Modulus(inst.dest)), Modulus(inst.dest))
          /\ flag_get(cpu'.regs.flags, "af") <=> ((DestValue % 16) + (SrcValue % 16) > 15)]_vars

\* add ax, bx with 0x8000 + 0x8000: the sum is exactly 2^16
C15_Witness ==
    /\ pc = "fetch" /\ LastOp = "Add" /\ hist.b1 = 1
    /\ hist.before.regs.ax = 32768 /\ cpu.regs.bx = 32768 /\ cpu.regs.ax = 0
    /\ flag_get(cpu.regs.flags, "cf") /\ flag_get(cpu.regs.flags, "of")
    /\ ~flag_get(cpu.regs.flags, "af")

\* C16: SUB and CMP on operands a and b of width W set CF iff a < b unsigned, OF
\* iff the signed difference is not representable in W bits and AF iff
\* (a & 0xF) < (b & 0xF); CMP leaves registers and memory unchanged, and SUB
\* stores (a - b) mod 2^W in the destination.
C16_SubCmpResultAndFlags ==
    [][ArithStep({"Sub", "Cmp"}) =>
          /\ flag_get(cpu'.regs.flags, "cf") <=> (DestValue < SrcValue)
          /\ flag_get(cpu'.regs.flags, "of") <=>
                ~Representable(Signed(DestValue, Modulus(inst.dest))
                                 - Signed(SrcValue, Modulus(inst.dest)), Modulus(inst.dest))
          /\ flag_get(cpu'.regs.flags, "af") <=> ((DestValue % 16) < (SrcValue % 16))
          /\ cpu'.regs.flags = sub(cpu, inst.dest, inst.src, FALSE, FALSE).regs.flags
          /\ IF inst.opcode = "Cmp"
             THEN /\ cpu'.mem.vec = cpu.mem.vec
                  /\ cpu'.regs = [cpu.regs EXCEPT !.flags = cpu'.regs.flags]
             ELSE operand_value(cpu', inst.dest)
                     = (DestValue + 65536 - SrcValue) % Modulus(inst.dest)]_vars

\* cmp al, bl with 0x80 - 0x01: no borrow, signed overflow, nibble borrow
C16_Witness ==
    /\ pc = "fetch" /\ LastOp = "Cmp" /\ hist.b1 = 56
    /\ cpu.regs.ax = 128 /\ cpu.regs.bx = 1
    /\ ~flag_get(cpu.regs.flags, "cf") /\ flag_get(cpu.regs.flags, "of")
    /\ flag_get(cpu.regs.flags, "af")

\* the registers other than FLAGS that an instruction with 8-bit register
\* destination `d` must leave alone keep their values: the other half of the
\* 16-bit register holding d, and every other general register
OtherHalfKept(d) ==
    /\ get_reg(cpu'.regs, (d.v + 4) % 8, FALSE) = get_reg(cpu.regs, (d.v + 4) % 8, FALSE)
    /\ \A j \in (0 .. 7) \ {d.v % 4} : get_reg(cpu'.regs, j, TRUE) = get_reg(cpu.regs, j, TRUE)

\* C17: ADC stores (dest + src + CF) mod 2^W and SBB stores (dest - src - CF) mod 2^W,
\* CF being the carry on entry; an 8-bit destination leaves the other byte of its
\* register, or the bytes of memory next to it, unchanged.
C17_AdcSbbStore ==
    [][ArithStep({"Adc", "Sbb"}) =>
          /\ operand_value(cpu', inst.dest) = WidthResult
          /\ inst.dest.kind = "Reg8" => OtherHalfKept(inst.dest)
          /\ inst.dest.kind = "Mem8" =>
                \A a \in DOMAIN cpu'.mem.vec \ {inst.dest.v} :
                    MemByte(cpu'.mem, a) = MemByte(cpu.mem, a)]_vars

\* adc ah, bl with AH = 0x7F, AL = 0xFF, BL = 0x01 and the carry set: AH = 0x81
C17_Witness ==
    /\ pc = "fetch" /\ LastOp = "Adc" /\ hist.b2 = 220
    /\ hist.before.regs.ax = 32767 /\ flag_get(hist.before.regs.flags, "cf")
    /\ cpu.regs.bx = 1 /\ cpu.regs.ax = 33279

\* C18: INC and DEC, in the single-byte register forms and in the r/m forms, leave
\* CF as it was.
C18_IncDecKeepCarry ==
    [][ArithStep(IncRegOps \cup DecRegOps \cup {"Inc"}) =>
          (flag_get(cpu'.regs.flags, "cf") <=> flag_get(cpu.regs.flags, "cf"))]_vars

\* inc ax with AX = 0xFFFF and the carry clear: AX wraps to 0 and CF stays clear
C18_Witness ==
    /\ pc = "fetch" /\ LastOp = "IncAx"
    /\ hist.before.regs.ax = 65535 /\ cpu.regs.ax = 0
    /\ ~flag_get(hist.before.regs.flags, "cf") /\ ~flag_get(cpu.regs.flags, "cf")
    /\ flag_get(cpu.regs.flags, "zf")

\* the string operation executed by this step, by the run loop or by one iteration
\* of a repeat prefix, or "none"
StringStepOp ==
    CASE pc = "execute" /\ inst.opcode \in StringOps /\ pc' # "abort" -> inst.opcode
      [] pc = "rep_loop" /\ cpu.regs.cx # 0 /\ rep.instr.opcode \in StringOps
           /\ pc' # "abort" -> rep.instr.opcode
      [] OTHER -> "none"

OperandSize(op) == IF op \in {"Movsw", "Cmpsw", "Stosw", "Lodsw", "Scasw"} THEN 2 ELSE 1

\* v moved by the operand size of op, up with DF clear and down with DF set
Stepped(v, op) ==
    IF flag_get(cpu.regs.flags, "df") THEN (v + 65536 - OperandSize(op)) % 65536
    ELSE (v + OperandSize(op)) % 65536

\* C19: one step of MOVS or CMPS moves SI and DI each from its own previous value by
\* the operand size (up with DF clear, down with DF set, modulo 2^16); LODS moves
\* only SI, STOS and SCAS move only DI.
C19_StringPointers ==
    [][StringStepOp # "none" =>
          /\ cpu'.regs.si = IF StringStepOp \in {"Movsb", "Movsw", "Cmpsb", "Cmpsw", "Lodsb", "Lodsw"}
                            THEN Stepped(cpu.regs.si, StringStepOp) ELSE cpu.regs.si
          /\ cpu'.regs.di = IF StringStepOp \in {"Lodsb", "Lodsw"}
                            THEN cpu.regs.di ELSE Stepped(cpu.regs.di, StringStepOp)]_vars

\* the linear address X:SI for the pending override X
OverrideSource == (SegBase(cpu.regs, cpu.seg_override) + cpu.regs.si) % 1048576

DestinationAddr == (SegBase(cpu.regs, "Es") + cpu.regs.di) % 1048576

\* the byte or word of memory m at linear address a, by the operand size of op
StringRead(m, a, op) == IF OperandSize(op) = 2 THEN MemU16(m, a) ELSE MemByte(m, a)

\* C20: with a segment override X pending, MOVS, CMPS and LODS read their source
\* operand at X:SI instead of DS:SI, and the destination of MOVS and CMPS stays ES:DI.
C20_OverrideOnStringSource ==
    [][(StringStepOp # "none" /\ cpu.seg_override # "None") =>
          /\ StringStepOp \in {"Lodsb", "Lodsw"} =>
                get_reg(cpu'.regs, 0, OperandSize(StringStepOp) = 2)
                   = StringRead(cpu.mem, OverrideSource, StringStepOp)
          /\ StringStepOp \in {"Movsb", "Movsw"} =>
                StringRead(cpu'.mem, DestinationAddr, StringStepOp)
                   = StringRead(cpu.mem, OverrideSource, StringStepOp)
          /\ StringStepOp \in {"Cmpsb", "Cmpsw"} =>
                (flag_get(cpu'.regs.flags, "zf") <=>
                    StringRead(cpu.mem, OverrideSource, StringStepOp)
                       = StringRead(cpu.mem, DestinationAddr, StringStepOp))]_vars

\* the dividend of the DIV or IDIV in `inst`: AX for the 8-bit form and DX:AX for the
\* 16-bit form, read as unsigned by DIV and as two's complement by IDIV
Dividend ==
    CASE inst.opcode = "Div" /\ IsWord(inst.dest) -> cpu.regs.dx * 65536 + cpu.regs.ax
      [] inst.opcode = "Div" -> cpu.regs.ax
      [] IsWord(inst.dest) -> Signed(cpu.regs.dx, 65536) * 65536 + cpu.regs.ax
      [] OTHER -> Signed(cpu.regs.ax, 65536)

Divisor ==
    IF inst.opcode = "Div" THEN operand_value(cpu, inst.dest)
    ELSE Signed(operand_value(cpu, inst.dest), Modulus(inst.dest))

Magnitude(x) == IF x < 0 THEN -x ELSE x

\* the quotient rounded toward zero
Quotient ==
    IF (Dividend < 0) = (Divisor < 0) THEN Magnitude(Dividend) \div Magnitude(Divisor)
    ELSE -(Magnitude(Dividend) \div Magnitude(Divisor))

\* the divisor is zero or the quotient does not fit AL (8-bit form) or AX (16-bit form)
DivideError ==
    \/ Divisor = 0
    \/ inst.opcode = "Div" /\ Quotient >= Modulus(inst.dest)
    \/ inst.opcode = "Idiv" /\ ~Representable(Quotient, Modulus(inst.dest))

\* C21: a DIV or IDIV whose divisor is zero or whose quotient does not fit the
\* destination is fatal: execution stops with AX and DX as they were, and nothing
\* is executed after it.
C21_DivideErrorIsFatal ==
    [][(pc = "execute" /\ inst.opcode \in {"Div", "Idiv"} /\ DivideError) =>
          /\ pc' = "abort"
          /\ cpu'.regs.ax = cpu.regs.ax /\ cpu'.regs.dx = cpu.regs.dx]_vars

\* C22: every physical address at which an instruction reads or writes memory is
\* below 2^20; a mod/reg/rm memory operand whose segment base plus offset passes
\* 0xFFFFF is reduced modulo 2^20.
C22_AddressesWithin20Bits ==
    pc = "execute" =>
        /\ IsMem(inst.dest) => inst.dest.v < 1048576
        /\ IsMem(inst.src) => inst.src.v < 1048576

\* C23: memory is a flat store of 2^20 bytes: in every reachable state a read of any
\* physical address below 2^20, written before or not, succeeds (the last byte,
\* 0xFFFFF, is readable, hence every byte below it), no read makes the run fail,
\* and the cursor position is at most 2^20.
C23_FlatMegabyte ==
    /\ MemReadable(cpu.mem, 1048575, 1)
    /\ cpu.mem.pos <= 1048576
    /\ ~(pc = "abort" /\ LastOp = "Mov" /\ IsMem(inst.src) /\ inst.src.v < 1048575)

\* C24: in every reachable state, after init and after any sequence of instructions
\* including POPF, SAHF and IRET, bit 1 of the FLAGS word is 1.
C24_FlagsBitOne == Bit(cpu.regs.flags, 1) = 1

\* FLAGS has been loaded by POPF, SAHF or IRET from a word whose bit 1 is 0 and
\* whose other low bits are all 1
C24_Witness ==
    /\ pc = "fetch" /\ LastOp \in {"Popf", "Sahf", "Iret"}
    /\ cpu.regs.flags = 4055
    /\ hist.before.regs.flags = 2

\* the segment register with the field name `name`
SegOfField(name) ==
    CASE name = "cs" -> "Cs" [] name = "ds" -> "Ds" [] name = "ss" -> "Ss" [] name = "es" -> "Es"

\* code_addr / data_addr / stack_addr / extra_addr of Cpu c, chosen by the field name
SegmentAddr(c, name, offset) ==
    CASE name = "cs" -> code_addr(c, offset) [] name = "ds" -> data_addr(c, offset)
      [] name = "ss" -> stack_addr(c, offset) [] name = "es" -> extra_addr(c, offset)

\* C25: after set_cs / set_ds / set_ss / set_es with the linear base S * 16 of a
\* 16-bit segment value S, the getter returns that base and code_addr / data_addr /
\* stack_addr / extra_addr (O) is ((S << 4) + O) mod 2^20 for every offset O.
C25_SegmentAddresses ==
    [][(inst'.opcode = "set_seg" /\ pc' = "unit" /\ inst'.src \div 16 < 65536) =>
          /\ SegBase(cpu'.regs, SegOfField(inst'.dest)) = inst'.src
          /\ \A o \in {0, 5, 15, 16, 4096, 65535} :
                SegmentAddr(cpu', inst'.dest, o) = (inst'.src + o) % 1048576]_vars

\* set_ss(0xFFFF0): stack_addr(0xFFFF) wraps to 0x0FFEF
C25_Witness ==
    /\ pc = "unit" /\ inst.opcode = "set_seg" /\ inst.dest = "ss" /\ inst.src = 1048560
    /\ stack_addr(cpu, 65535) = 65519 /\ cpu.regs.ss = 65535

\* C26: set_cs / set_ds / set_ss / set_es with a value that is not a multiple of 16
\* fails an assertion and stores nothing.
C26_UnalignedSegmentFails ==
    [][(inst'.opcode = "set_seg" /\ inst'.src % 16 # 0) =>
          /\ pc' = "abort" /\ cpu'.panicked
          /\ cpu'.regs = cpu.regs]_vars

\* set_cs(3), as in the test `a`
C26_Witness ==
    /\ pc = "abort" /\ inst.opcode = "set_seg" /\ inst.dest = "cs" /\ inst.src = 3
    /\ cpu.regs.cs = 65535 /\ cpu.regs = hist.before.regs

\* C27: set_X sets and clear_X clears exactly bit X of FLAGS (CF 0, PF 2, AF 4, ZF 6,
\* SF 7, TF 8, IF 9, DF 10, OF 11); every other architectural flag and bit 1 keep
\* their values, and reading X returns what was set last.
C27_FlagAccessors ==
    [][inst'.opcode = "flag" =>
          /\ flag_get(cpu'.regs.flags, inst'.dest) = inst'.src
          /\ Bit(cpu'.regs.flags, FlagBit(inst'.dest)) = (IF inst'.src THEN 1 ELSE 0)
          /\ \A g \in FlagNames \ {inst'.dest} :
                Bit(cpu'.regs.flags, FlagBit(g)) = Bit(cpu.regs.flags, FlagBit(g))
          /\ Bit(cpu'.regs.flags, 1) = Bit(cpu.regs.flags, 1)]_vars

\* set_zf() called twice, all other flags set before: ZF stays set
C27_Witness ==
    /\ pc = "unit" /\ inst.opcode = "flag" /\ inst.dest = "zf" /\ inst.src
    /\ hist.before.regs.flags = 4055 /\ cpu.regs.flags = 4055 /\ hist.steps = 2

\* C28: writing AH / BH / CH / DH and reading it back yields the byte written and
\* leaves the low byte unchanged, writing AL / BL / CL / DL leaves the high byte
\* unchanged, and each of AX, BX, CX, DX equals high * 256 + low.
C28_ByteHalves ==
    [][inst'.opcode = "set_reg8" =>
          /\ get_reg(cpu'.regs, inst'.dest, FALSE) = inst'.src % 256
          /\ get_reg(cpu'.regs, (inst'.dest + 4) % 8, FALSE)
                = get_reg(cpu.regs, (inst'.dest + 4) % 8, FALSE)
          /\ \A r \in 0..3 :
                get_reg(cpu'.regs, r, TRUE)
                   = 256 * get_reg(cpu'.regs, r + 4, FALSE) + get_reg(cpu'.regs, r, FALSE)]_vars

\* set_ah(0xCD) on AX = 0x1234 gives 0xCD34
C28_Witness ==
    /\ pc = "unit" /\ inst.opcode = "set_reg8" /\ inst.dest = 4 /\ inst.src = 43981
    /\ hist.before.regs.ax = 4660 /\ cpu.regs.ax = 52532

\* C29: executing a prefix never clears a pending segment override: after
\* <segment override>, REP and after REP, <segment override> the override is still
\* pending when the string operation that follows the prefixes starts executing
\* (the first iteration of the repeat loop, or the run loop's execute of it).
C29_PrefixKeepsOverride ==
    /\ (pc = "rep_loop" /\ hist.count = 0 /\ cpu.regs.cx # 0 /\ LastOp \in RepOps
          /\ PrevOp \in OverrideOps /\ rep.instr.opcode \in StringOps) =>
            cpu.seg_override = OverrideSeg(PrevOp)
    /\ (pc = "execute" /\ inst.opcode \in StringOps /\ LastOp \in OverrideOps
          /\ PrevOp \in RepOps) =>
            cpu.seg_override = OverrideSeg(LastOp)

\* the string operations executed by the repeat prefix that is returning: the
\* iterations of its loop, or the single execute outside a loop
RepExecutions == hist.count + (IF LastOp \in RepOps THEN 0 ELSE 1)

\* C30: REPNE before MOVS, STOS or LODS with CX = n repeats the operation until
\* CX = 0: it executes it exactly n times and returns with CX = 0, as REP does.
C30_RepneRepeatsMoves ==
    [][(RepReturns /\ rep.instr.opcode \in MoveStringOps /\ cpu.halt = FALSE
          /\ (LastOp = "Repne" \/ (LastOp = rep.instr.opcode /\ PrevOp = "Repne"))) =>
          /\ RepExecutions = hist.cx0
          /\ cpu'.regs.cx = 0]_vars


\* execute of Into: with OF clear nothing but the pending override may change; with OF
\* set FLAGS, CS and IP are pushed, IF is cleared and IP and CS come from the words
\* at 16 and 18, the vector of interrupt 4
IntoStep ==
    (pc = "execute" /\ inst.opcode = "Into" /\ ~cpu'.panicked) =>
        IF ~flag_get(cpu.regs.flags, "of")
        THEN cpu'.regs = cpu.regs /\ SameMemory(cpu'.mem, cpu.mem)
        ELSE /\ cpu'.regs.sp = W16(cpu.regs.sp + 65530)
             /\ MemU16(cpu'.mem, stack_addr(cpu, W16(cpu.regs.sp + 65534))) = cpu.regs.flags
             /\ MemU16(cpu'.mem, stack_addr(cpu, W16(cpu.regs.sp + 65532))) = cpu.regs.cs
             /\ MemU16(cpu'.mem, stack_addr(cpu, W16(cpu.regs.sp + 65530))) = cpu.regs.ip
             /\ cpu'.regs.flags = flag_clear(cpu.regs.flags, "if")
             /\ cpu'.regs.ip = MemU16(cpu'.mem, 16)
             /\ cpu'.regs.cs = MemU16(cpu'.mem, 18)

\* C31: INTO executed with OF = 0 leaves SP, the stack, CS, the flags and the
\* sequential IP as they were; with OF = 1 it pushes FLAGS, CS and IP, clears IF and
\* loads CS:IP from the interrupt vector.
C31_IntoOnlyOnOverflow == [][IntoStep]_vars


\* the byte k places after CS:IP
CodeByte(k) == MemByte(cpu.mem, code_addr(cpu, cpu.regs.ip) + k)

\* the sum of the base registers the r/m field names on the 8086
RmBase(r, rm) ==
    CASE rm = 0 -> r.bx + r.si [] rm = 1 -> r.bx + r.di
      [] rm = 2 -> r.bp + r.si [] rm = 3 -> r.bp + r.di
      [] rm = 4 -> r.si [] rm = 5 -> r.di [] rm = 6 -> r.bp [] rm = 7 -> r.bx

\* the run loop fetches mov r16, [rm + disp] (8B, mod = md) with no override pending
FetchesMovDisp(md) ==
    /\ pc = "fetch" /\ pc' # "fetch" /\ cpu.seg_override = "None"
    /\ CodeByte(0) = 139 /\ CodeByte(1) \div 64 = md

\* the fetch ends with the memory operand at `offset` in its default segment and
\* with IP advanced over the opcode, the mod/reg/rm byte and n displacement bytes
ResolvesTo(offset, n) ==
    /\ pc' = "execute"
    /\ inst'.src.kind = "Mem16"
    /\ inst'.src.offt = offset
    /\ inst'.src.v = (16 * cpu.regs[DefaultSegField(CodeByte(1))] + offset) % 1048576
    /\ cpu'.regs.ip = W16(cpu.regs.ip + 2 + n)

Mod2Step ==
    FetchesMovDisp(2) =>
        ResolvesTo(W16(RmBase(cpu.regs, CodeByte(1) % 8) + CodeByte(2) + 256 * CodeByte(3)), 2)

\* C32: for mod = 2 the effective offset is base(rm) + disp16 modulo 2^16 for every rm
\* in 0..7, rm = 6 naming BP + disp16 with default segment SS, and the resolver
\* consumes exactly two displacement bytes.
C32_Mod2Displacement == [][Mod2Step]_vars

Mod1Step ==
    FetchesMovDisp(1) =>
        ResolvesTo(W16(RmBase(cpu.regs, CodeByte(1) % 8) + SignExtended(CodeByte(2))), 1)

\* C33: for mod = 1 the 8-bit displacement is sign-extended to 16 bits before it is
\* added to the base registers (0xFF addresses base - 1) and the effective offset is
\* computed modulo 2^16 without failing.
C33_Mod1SignExtended == [][Mod1Step]_vars


\* the run loop executes the single-byte INC or DEC it fetched: the register whose
\* index is the low 3 bits of the opcode byte moves by one, the other seven general
\* registers keep their values
RegIncDecStep ==
    (pc = "execute" /\ ~rep.nested /\ inst.opcode \in IncRegOps \cup DecRegOps) =>
        /\ ~cpu'.panicked
        /\ \A k \in 0..7 :
              cpu'.regs[Reg16Name[k + 1]] =
                  IF k # hist.b1 % 8 THEN cpu.regs[Reg16Name[k + 1]]
                  ELSE IF hist.b1 \in 64..71 THEN W16(cpu.regs[Reg16Name[k + 1]] + 1)
                  ELSE W16(cpu.regs[Reg16Name[k + 1]] + 65535)

\* C34: the single-byte INC (0x40 + r) and DEC (0x48 + r), fetched and executed, modify
\* exactly the 16-bit register of 8086 index r (0 AX, 1 CX, 2 DX, 3 BX, 4 SP, 5 BP,
\* 6 SI, 7 DI) and leave every other general register unchanged.
C34_RegIncDecTarget == [][RegIncDecStep]_vars


\* the run loop executes the instruction it fetched from a first byte 0xFE or 0xFF
\* whose reg field is 0 or 1: the r/m operand, of 8 bits for 0xFE and 16 for 0xFF,
\* moves up by one for reg = 0 and down by one for reg = 1
Group63Step ==
    (pc = "execute" /\ ~rep.nested /\ hist.b1 \in {254, 255}
         /\ (hist.b2 \div 8) % 8 \in {0, 1}) =>
        /\ ~cpu'.panicked
        /\ operand_value(cpu', inst.dest) =
              (operand_value(cpu, inst.dest)
                   + (IF (hist.b2 \div 8) % 8 = 0 THEN 1 ELSE Pow2(8 * (hist.b1 - 253)) - 1))
                  % Pow2(8 * (hist.b1 - 253))

\* C35: a group-63 instruction (first byte 0xFE or 0xFF) whose reg field is 1 is DEC:
\* fetched and executed it decrements its r/m operand by 1 modulo 2^W, while reg
\* field 0 (INC) increments it.
C35_Group63Dec == [][Group63Step]_vars


\* C36: a first byte in primary group 2k+1 with tail 0 (AL, imm8) or tail 1 (AX,
\* imm16) decodes to the operation of group 2k (ADD, OR, ADC, SBB, AND, SUB, XOR, CMP
\* for k = 0..7) with the accumulator as destination and the immediate as source.
C36_AccumulatorImmediate ==
    (pc = "execute" /\ ~rep.nested /\ hist.b1 < 64 /\ hist.b1 % 8 \in {4, 5}) =>
        /\ inst.opcode = AluName[hist.b1 \div 8 + 1]
        /\ inst.dest = Reg(hist.b1 % 8 = 5, 0)
        /\ inst.src = IF hist.b1 % 8 = 4 THEN Imm8(hist.b2)
                      ELSE Imm16(hist.b2 + 256 * MemByte(cpu.mem, code_addr(cpu, hist.ip0) + 2))


\* C37: for ADC and SBB the flags CF, OF and AF are those of the raw two-operand
\* operation dest + src (dest - src): the carry taken in changes the stored result but
\* none of the three.  ADC of 0xFF and 0x00 on 8 bits with CF = 1 on entry stores 0x00
\* and leaves CF clear.
C37_AdcSbbRawFlags ==
    [][ArithStep({"Adc", "Sbb"}) =>
          /\ flag_get(cpu'.regs.flags, "cf") <=>
                IF IsAddition THEN DestValue + SrcValue >= Modulus(inst.dest)
                ELSE DestValue < SrcValue
          /\ flag_get(cpu'.regs.flags, "of") <=>
                ~Representable(IF IsAddition
                               THEN Signed(DestValue, Modulus(inst.dest))
                                        + Signed(SrcValue, Modulus(inst.dest))
                               ELSE Signed(DestValue, Modulus(inst.dest))
                                        - Signed(SrcValue, Modulus(inst.dest)),
                               Modulus(inst.dest))
          /\ flag_get(cpu'.regs.flags, "af") <=>
                IF IsAddition THEN (DestValue % 16) + (SrcValue % 16) > 15
                ELSE (DestValue % 16) < (SrcValue % 16)
          /\ (IsAddition /\ ~IsWord(inst.dest) /\ DestValue = 255 /\ SrcValue = 0
                  /\ CarryInValue = 1) =>
                (operand_value(cpu', inst.dest) = 0 /\ ~flag_get(cpu'.regs.flags, "cf"))]_vars

\* adc al, bl with AL = 0xFF, BL = 0x00 and the carry set: AL = 0x00 and CF clear
C37_Witness ==
    /\ pc = "fetch" /\ LastOp = "Adc" /\ hist.b1 = 16 /\ hist.b2 = 216
    /\ hist.before.regs.ax = 255 /\ flag_get(hist.before.regs.flags, "cf")
    /\ cpu.regs.bx = 0 /\ cpu.regs.ax = 0 /\ ~flag_get(cpu.regs.flags, "cf")


\* one one-bit shift of val within a width of modulus top
OneBitShift(op, top, val) ==
    CASE op = "Shl" -> (2 * val) % top
      [] op = "Shr" -> val \div 2
      [] op = "Sar" -> val \div 2 + (IF val >= top \div 2 THEN top \div 2 ELSE 0)

\* n successive one-bit shifts, each applied to the result of the one before
RECURSIVE Shifted(_, _, _, _)
Shifted(op, top, val, n) ==
    IF n = 0 THEN val ELSE OneBitShift(op, top, Shifted(op, top, val, n - 1))

\* the bit the n-th of these shifts moves out
LastBitOut(op, top, val, n) ==
    IF op = "Shl" THEN Shifted(op, top, val, n - 1) >= top \div 2
    ELSE Shifted(op, top, val, n - 1) % 2 = 1

\* the run loop executes SHL, SHR or SAR with the count in CL
ShiftByClStep ==
    (pc = "execute" /\ ~rep.nested /\ inst.opcode \in {"Shl", "Shr", "Sar"}
         /\ hist.b1 \in {210, 211}) =>
        /\ ~cpu'.panicked
        /\ operand_value(cpu', inst.dest)
              = Shifted(inst.opcode, Modulus(inst.dest), DestValue, Lo(cpu.regs.cx))
        /\ flag_get(cpu'.regs.flags, "cf") <=>
              IF Lo(cpu.regs.cx) = 0 THEN flag_get(cpu.regs.flags, "cf")
              ELSE LastBitOut(inst.opcode, Modulus(inst.dest), DestValue, Lo(cpu.regs.cx))

\* C38: SHL, SHR and SAR with a count n taken from CL store the operand shifted by n bit
\* positions within its width (n successive one-bit shifts, each applied to the
\* previous result) with CF equal to the last bit shifted out; a count of 0 leaves the
\* operand and CF unchanged.
C38_ShiftByCount == [][ShiftByClStep]_vars


\* the run loop executes the JNLE / JG (0x7F) it fetched: the jump is taken, that is IP
\* moves by the displacement, iff ZF = 0 and SF = OF, and after cmp ax, cx iff AX is
\* greater than CX as signed words
JnleStep ==
    (pc = "execute" /\ ~rep.nested /\ inst.opcode = "Jnle" /\ hist.b1 = 127
         /\ pc' # "abort") =>
        /\ cpu'.regs.ip = IF ~flag_get(cpu.regs.flags, "zf")
                               /\ (flag_get(cpu.regs.flags, "sf")
                                      <=> flag_get(cpu.regs.flags, "of"))
                          THEN W16(cpu.regs.ip + SignExtended(hist.b2))
                          ELSE cpu.regs.ip
        /\ (LastOp = "Cmp" /\ hist.before.regs.ax = cpu.regs.ax) =>
              (cpu'.regs.ip # cpu.regs.ip
                  <=> Signed(cpu.regs.ax, 65536) > Signed(cpu.regs.cx, 65536))

\* C39: JNLE/JG (first byte 0x7F) is taken iff ZF = 0 and SF = OF, so that after
\* CMP a, b it is taken iff a > b as signed values and is not taken when a < b.
C39_JgSignedGreater == [][JnleStep]_vars


\* FLAGS after the flag instruction `op` executed on FLAGS bi
FlagInstruction(bi, op) ==
    CASE op = "Cmc" -> IF flag_get(bi, "cf") THEN flag_clear(bi, "cf") ELSE flag_set(bi, "cf")
      [] op = "Clc" -> flag_clear(bi, "cf") [] op = "Stc" -> flag_set(bi, "cf")
      [] op = "Cli" -> flag_clear(bi, "if") [] op = "Sti" -> flag_set(bi, "if")
      [] op = "Cld" -> flag_clear(bi, "df") [] op = "Std" -> flag_set(bi, "df")

\* the run loop executes CMC, CLC, STC, CLI, STI, CLD or STD
FlagInstructionStep ==
    (pc = "execute" /\ ~rep.nested
         /\ inst.opcode \in {"Cmc", "Clc", "Stc", "Cli", "Sti", "Cld", "Std"}) =>
        /\ pc' # "abort" /\ ~cpu'.panicked
        /\ cpu'.regs = [cpu.regs EXCEPT !.flags = FlagInstruction(@, inst.opcode)]
        /\ SameMemory(cpu'.mem, cpu.mem)

\* C40: executing CMC completes normally and complements CF, leaving every other flag,
\* every register and memory unchanged, just as CLC, STC, CLI, STI, CLD and STD each
\* change only their own flag.
C40_CmcComplementsCarry == [][FlagInstructionStep]_vars

====
